---- MODULE Spec2Model ----
(***************************************************************************)
(* The useBinanceData hook of Binance-Live-Book: snapshot acquisition,     *)
(* delta queueing, the update-id gate of processMessage, and the socket    *)
(* life cycle, for the revisions of the hook kept in the repository.       *)
(*                                                                         *)
(*   H1  src/src/hooks/use-binance-data.ts lines   1..210                  *)
(*       (socket opened after the snapshot, queue drained in onopen)       *)
(*   H2  src/src/hooks/use-binance-data.ts lines 212..422                  *)
(*       (socket opened before the fetch, gap calls connect again)         *)
(*   U0  src/unnamed/part_000                                              *)
(*       (closure variables instead of refs, 5 s reconnect timer)          *)
(*   U1  src/unnamed/part_001                                              *)
(*       (isMounted guard, queue filtered and replayed before the socket)  *)
(*   U2  src/unnamed/part_002                                              *)
(*       (as H1, connected only once the socket is open)                   *)
(***************************************************************************)
EXTENDS Integers, Sequences, FiniteSets, TLC

VARIABLES
    hook,                \* which revision of the hook is mounted
    symbol,              \* the symbol prop of the current render
    ws,                  \* ws.current: a socket id, or NoSocket
    lastUpdateId,        \* lastUpdateId.current: an update id, or Null
    eventQueue,          \* eventQueue.current
    isFetchingSnapshot,  \* isFetchingSnapshot.current
    orderBook,           \* the reducer state [bids, asks]
    trades,              \* the trades state, most recent first
    status,              \* the status state
    conn,                \* the connect() invocations
    sock,                \* the WebSocket objects; sock[c] is the one connect c makes
    unmounted,           \* U0: the closure variables of the effects cleaned up
    latest,              \* the connect() invocation that was made last
    last,                \* the handler that ran last: [op, id, arg, gate], with the
                         \* socket or invocation it ran for, its input, and the
                         \* decisions [U, u, S, out] its update-id checks took
    run,                 \* where a run is recorded: the snapshot that arrived, the
                         \* depth updates in arrival order, those applied
    ui                   \* what is shown: the throttled maps and their timer, or
                         \* the map one table is given and the rows it shows

vars == <<hook, symbol, ws, lastUpdateId, eventQueue, isFetchingSnapshot,
          orderBook, trades, status, conn, sock, unmounted, latest, last, run, ui>>

----------------------------------------------------------------------------
(* Bounds of the model. *)

MaxConnects == 2
MaxUpdateId == 3
MaxSnapId == 1
MaxQueue == 2
MaxTrades == 1
MaxEarly == 3
MaxLate == 2
MaxArrivals == 2
MaxLevels == 2

(* Program constants. *)

Null == -1
NoSocket == 0
TradeCap == 50

Hooks == {"H1", "H2", "U0", "U1", "U2"}
Symbols == {"BTCUSDT", "ETHUSDT"}
InitialPair == "BTCUSDT"

\* the prices of a deep book, as the decimal strings of the stream
LowestPrice == 96
HighestPrice == 127
Decimal(n) == ToString(n) \o ".00"
DeepPrices == { Decimal(n) : n \in LowestPrice..HighestPrice }
DecimalValue ==
    [s \in DeepPrices |-> 100 * (CHOOSE n \in LowestPrice..HighestPrice : Decimal(n) = s)]

\* parseFloat of the strings the model uses, in hundredths
parseFloat(s) ==
    CASE s = "0" -> 0
      [] s = "0.00000000" -> 0
      [] s = "2" -> 200
      [] s = "3" -> 300
      [] s = "100.00" -> 10000
      [] s = "101.00" -> 10100
      [] OTHER -> DecimalValue[s]

UpdateIds == 1..MaxUpdateId

\* the depth events of the stream: one per range of update ids, the events that
\* end on an odd id raising the bid and clearing the ask, the others the reverse
bidsOf(u) == IF u % 2 = 1 THEN << <<"100.00", "2">> >> ELSE << <<"100.00", "0">> >>
asksOf(u) == IF u % 2 = 1 THEN << <<"101.00", "0">> >> ELSE << <<"101.00", "3">> >>

DepthUpdates ==
    { [kind |-> "depth", U |-> r[1], u |-> r[2], b |-> bidsOf(r[2]), a |-> asksOf(r[2])] :
        r \in { x \in UpdateIds \X UpdateIds : x[1] <= x[2] } }
AggTrades == [kind : {"trade"}, t : 1..MaxTrades]
\* the trades of a run that follows the trade list: few ids, so that a trade
\* arrives after one of a higher id
MaxFlowId == 2
MaxFlowTrades == 3
MaxFlowDeltas == 2
FlowTrades == [kind : {"trade"}, t : 1..MaxFlowId]
Messages == DepthUpdates \cup AggTrades
NoMsg == [kind |-> "none"]

Snapshots ==
    [lastUpdateId : 0..MaxSnapId,
     bids : { <<>>, << <<"100.00", "2">> >> },
     asks : { << <<"101.00", "3">> >> }]

EmptyMap == [p \in {} |-> "0"]
EmptyBook == [bids |-> EmptyMap, asks |-> EmptyMap]

----------------------------------------------------------------------------
(* The order book reducer. *)

\* new Map(entries): later entries of the same key overwrite earlier ones
RECURSIVE SetAll(_, _)
SetAll(map, entries) ==
    IF entries = <<>> THEN map
    ELSE LET price == Head(entries)[1]
             quantity == Head(entries)[2]
         IN SetAll([p \in DOMAIN map \cup {price} |->
                        IF p = price THEN quantity ELSE map[p]],
                   Tail(entries))

NewMap(entries) == SetAll(EmptyMap, entries)

\* an upsert that takes only the string "0" for a zero quantity
upsert_ComparingStrings(map, price, quantity) ==
    IF quantity = "0"
    THEN [p \in DOMAIN map \ {price} |-> map[p]]
    ELSE [p \in DOMAIN map \cup {price} |-> IF p = price THEN quantity ELSE map[p]]

\* one [price, quantity] of an UPDATE payload
upsert(map, price, quantity) ==
    IF parseFloat(quantity) = 0
    THEN [p \in DOMAIN map \ {price} |-> map[p]]
    ELSE [p \in DOMAIN map \cup {price} |-> IF p = price THEN quantity ELSE map[p]]

\* a batch taken from its end, so that the first of two levels for one price
\* is the one that stays
RECURSIVE updateMap_FirstWins(_, _)
updateMap_FirstWins(map, updates) ==
    IF updates = <<>> THEN map
    ELSE updateMap_FirstWins(upsert(map, updates[Len(updates)][1],
                                    updates[Len(updates)][2]),
                             SubSeq(updates, 1, Len(updates) - 1))

\* payload.bids.forEach / payload.asks.forEach over a copy of the map
RECURSIVE updateMap(_, _)
updateMap(map, updates) ==
    IF updates = <<>> THEN map
    ELSE updateMap(upsert(map, Head(updates)[1], Head(updates)[2]), Tail(updates))

\* a reducer whose INIT adds the snapshot's levels to the maps it finds
orderBookReducer_Merging(state, action) ==
    CASE action.type = "INIT" ->
            [bids |-> SetAll(state.bids, action.bids),
             asks |-> SetAll(state.asks, action.asks)]
      [] action.type = "UPDATE" ->
            [bids |-> updateMap(state.bids, action.bids),
             asks |-> updateMap(state.asks, action.asks)]
      [] action.type = "RESET" -> EmptyBook
      [] OTHER -> state

orderBookReducer(state, action) ==
    CASE action.type = "INIT" ->
            [bids |-> NewMap(action.bids), asks |-> NewMap(action.asks)]
      [] action.type = "UPDATE" ->
            [bids |-> updateMap(state.bids, action.bids),
             asks |-> updateMap(state.asks, action.asks)]
      [] action.type = "RESET" -> EmptyBook
      [] OTHER -> state

----------------------------------------------------------------------------
(* The mutable state a handler works on, as one record. *)

Cur ==
    [ws |-> ws, lastUpdateId |-> lastUpdateId, eventQueue |-> eventQueue,
     isFetchingSnapshot |-> isFetchingSnapshot, orderBook |-> orderBook,
     trades |-> trades, status |-> status, conn |-> conn, sock |-> sock,
     unmounted |-> unmounted, latest |-> latest, overflow |-> FALSE, gate |-> <<>>]

\* WebSocket.close(): a connecting or open socket starts closing and delivers
\* no further message; closing an already closing or closed socket does nothing
close(m, w) ==
    IF w = NoSocket THEN m
    ELSE [m EXCEPT !.sock[w].st =
             IF @ \in {"connecting", "open"} THEN "closing" ELSE @]

\* a connect() invocation suspended at its fetch; symbol is what its closure holds
Invocation(sym, currentSymbol) ==
    [st |-> "fetching", symbol |-> sym, currentSymbol |-> currentSymbol,
     isMounted |-> TRUE]

\* a slot without a connect() invocation, without a socket, without closure variables
Returned ==
    [st |-> "returned", symbol |-> InitialPair, currentSymbol |-> InitialPair,
     isMounted |-> FALSE]
NoWebSocket == [st |-> "none", onclose |-> FALSE, onerror |-> FALSE, timer |-> FALSE]
NoLocals == [eventQueue |-> <<>>, lastUpdateId |-> Null, isFetchingSnapshot |-> FALSE]

\* connect() invocations and their sockets are kept in MaxConnects slots; a slot
\* is free once its invocation has returned, its socket can deliver no event
\* any more and ws.current does not refer to it
Slots == 1..MaxConnects
Free(m, c) ==
    /\ m.conn[c].st = "returned"
    /\ m.sock[c].st \in {"none", "closed"}
    /\ ~m.sock[c].timer
    /\ m.ws # c
FreeSlot(m) ==
    IF \E c \in Slots : Free(m, c)
    THEN CHOOSE c \in Slots : Free(m, c) /\ \A b \in Slots : Free(m, b) => c <= b
    ELSE 0

\* a new connect() invocation takes a free slot; without one the model stops here
invoke(m, invocation) ==
    LET c == FreeSlot(m)
    IN IF c = 0 THEN [m EXCEPT !.overflow = TRUE]
       ELSE [m EXCEPT !.conn[c] = invocation,
                      !.sock[c] = NoWebSocket,
                      !.unmounted[c] = NoLocals,
                      !.latest = c]

\* free slots hold nothing
Collect(m) ==
    [m EXCEPT !.conn = [c \in Slots |-> IF Free(m, c) THEN Returned ELSE @[c]],
              !.sock = [c \in Slots |-> IF Free(m, c) THEN NoWebSocket ELSE @[c]],
              !.unmounted = [c \in Slots |-> IF Free(m, c) THEN NoLocals ELSE @[c]]]

\* new WebSocket(url) assigned to ws.current by connect invocation c
newWebSocket(m, c) ==
    [m EXCEPT !.sock[c] = [st |-> "connecting", onclose |-> TRUE, onerror |-> TRUE,
                           timer |-> FALSE],
              !.ws = c]

Note(m, update, out) ==
    [m EXCEPT !.gate = Append(@, [U |-> update.U, u |-> update.u,
                                  S |-> m.lastUpdateId, out |-> out])]

\* an application that leaves lastUpdateId.current where it was
applyUpdate_KeepingS(m, update) ==
    [m EXCEPT !.orderBook = orderBookReducer(@, [type |-> "UPDATE",
                                                 bids |-> update.b, asks |-> update.a])]

applyUpdate(m, update) ==
    [m EXCEPT !.orderBook = orderBookReducer(@, [type |-> "UPDATE",
                                                 bids |-> update.b, asks |-> update.a]),
              !.lastUpdateId = update.u]

\* a list that is never cut
addTrade_WithoutCap(m, trade) ==
    [m EXCEPT !.trades = <<trade>> \o @]

\* a list that refuses a trade older than its head
addTrade_InOrder(m, trade) ==
    IF m.trades # <<>> /\ trade.t < Head(m.trades).t THEN m
    ELSE [m EXCEPT !.trades = <<trade>> \o @]

addTrade(m, trade) ==
    [m EXCEPT !.trades = SubSeq(<<trade>> \o @, 1,
                                IF Len(@) + 1 < TradeCap THEN Len(@) + 1 ELSE TradeCap)]

----------------------------------------------------------------------------
(* Revision H1: use-binance-data.ts lines 1..210. *)

\* processMessage without its return on update.u <= lastUpdateId.current (lines
\* 78..81): what the drop of stale updates is measured against
processMessage_WithoutStaleDrop(m, message) ==
    IF message.kind = "depth" THEN
        IF m.lastUpdateId = Null THEN Note(m, message, "ignored")
        ELSE IF /\ message.U <= m.lastUpdateId + 1
                /\ message.u >= m.lastUpdateId + 1
             THEN applyUpdate(Note(m, message, "applied"), message)
        ELSE IF message.U > m.lastUpdateId + 1
             THEN close(Note(m, message, "gap"), m.ws)
        ELSE applyUpdate(Note(m, message, "else"), message)
    ELSE IF message.kind = "trade" THEN addTrade(m, message)
    ELSE m

\* processMessage with the strict boundary: an update that starts at S + 1 is
\* taken for a gap
processMessage_StrictBoundary(m, message) ==
    IF message.kind = "depth" THEN
        IF m.lastUpdateId = Null THEN Note(m, message, "ignored")
        ELSE IF message.u <= m.lastUpdateId THEN Note(m, message, "stale")
        ELSE IF message.U <= m.lastUpdateId
             THEN applyUpdate(Note(m, message, "applied"), message)
        ELSE close(Note(m, message, "gap"), m.ws)
    ELSE IF message.kind = "trade" THEN addTrade(m, message)
    ELSE m

\* processMessage whose applicable branch asks for update.u >= S + 2: an update
\* that ends on S + 1 falls through to the final else
processMessage_LateBoundary(m, message) ==
    IF message.kind = "depth" THEN
        IF m.lastUpdateId = Null THEN Note(m, message, "ignored")
        ELSE IF message.u <= m.lastUpdateId THEN Note(m, message, "stale")
        ELSE IF /\ message.U <= m.lastUpdateId + 1
                /\ message.u >= m.lastUpdateId + 2
             THEN applyUpdate(Note(m, message, "applied"), message)
        ELSE IF message.U > m.lastUpdateId + 1
             THEN close(Note(m, message, "gap"), m.ws)
        ELSE applyUpdate(Note(m, message, "else"), message)
    ELSE IF message.kind = "trade" THEN addTrade(m, message)
    ELSE m

processMessage_H1(m, message) ==
    IF message.kind = "depth" THEN
        IF m.lastUpdateId = Null THEN Note(m, message, "ignored")
        ELSE IF message.u <= m.lastUpdateId THEN Note(m, message, "stale")
        ELSE IF /\ m.lastUpdateId # Null
                /\ message.U <= m.lastUpdateId + 1
                /\ message.u >= m.lastUpdateId + 1
             THEN applyUpdate(Note(m, message, "applied"), message)
        ELSE IF m.lastUpdateId # Null /\ message.U > m.lastUpdateId + 1
             THEN close(Note(m, message, "gap"), m.ws)
        ELSE applyUpdate(Note(m, message, "else"), message)
    ELSE IF message.kind = "trade" THEN addTrade(m, message)
    ELSE m

RECURSIVE forEach_H1(_, _)
forEach_H1(m, queue) ==
    IF queue = <<>> THEN m
    ELSE forEach_H1(processMessage_H1(m, Head(queue)), Tail(queue))

\* connect up to its first await; sym is the symbol its closure holds
connect_H1(m, sym, currentSymbol) ==
    LET m1 == close(m, m.ws)
    IN invoke([m1 EXCEPT !.status = "connecting",
                  !.orderBook = orderBookReducer(@, [type |-> "RESET"]),
                  !.trades = <<>>,
                  !.eventQueue = <<>>,
                  !.lastUpdateId = Null,
                  !.isFetchingSnapshot = TRUE],
              Invocation(sym, currentSymbol))

\* connect c resumed with the parsed snapshot
snapshot_H1(m, c, snapshot) ==
    IF m.conn[c].symbol # m.conn[c].currentSymbol
    THEN [m EXCEPT !.conn[c].st = "returned"]
    ELSE LET m1 == [m EXCEPT !.lastUpdateId = snapshot.lastUpdateId,
                             !.orderBook = orderBookReducer(@,
                                 [type |-> "INIT", bids |-> snapshot.bids,
                                  asks |-> snapshot.asks]),
                             !.isFetchingSnapshot = FALSE,
                             !.status = "connected",
                             !.conn[c].st = "returned"]
         IN newWebSocket(m1, c)

\* connect c resumed in its catch block
catch_H1(m, c) ==
    close([m EXCEPT !.status = "error", !.conn[c].st = "returned"], m.ws)

onopen_H1(m, w) ==
    forEach_H1([m EXCEPT !.eventQueue = <<>>], m.eventQueue)

onmessage_H1(m, w, message) ==
    IF m.isFetchingSnapshot
    THEN [m EXCEPT !.eventQueue = Append(@, message)]
    ELSE processMessage_H1(m, message)

onclose_H1(m, w) ==
    IF m.ws = w THEN [m EXCEPT !.status = "disconnected"] ELSE m

onerror_H1(m, w) ==
    IF m.ws = w THEN [m EXCEPT !.status = "error"] ELSE m

\* the effect's cleanup
cleanup_H1(m) ==
    IF m.ws # NoSocket
    THEN [close([m EXCEPT !.sock[m.ws].onclose = FALSE,
                          !.sock[m.ws].onerror = FALSE], m.ws)
             EXCEPT !.ws = NoSocket]
    ELSE m

----------------------------------------------------------------------------
(* Revision H2: use-binance-data.ts lines 212..422. *)

\* a connect that leaves the book as it was
connect_H2_KeepingBook(m, sym, currentSymbol) ==
    LET m1 == close(m, m.ws)
        m2 == invoke([m1 EXCEPT !.status = "connecting",
                                !.trades = <<>>,
                                !.eventQueue = <<>>,
                                !.lastUpdateId = Null,
                                !.isFetchingSnapshot = TRUE],
                     Invocation(sym, currentSymbol))
    IN newWebSocket(m2, m2.latest)

connect_H2(m, sym, currentSymbol) ==
    LET m1 == close(m, m.ws)
        m2 == invoke([m1 EXCEPT !.status = "connecting",
                                !.orderBook = orderBookReducer(@, [type |-> "RESET"]),
                                !.trades = <<>>,
                                !.eventQueue = <<>>,
                                !.lastUpdateId = Null,
                                !.isFetchingSnapshot = TRUE],
                     Invocation(sym, currentSymbol))
    IN newWebSocket(m2, m2.latest)

\* sym is the symbol the closure of processMessage holds
processMessage_H2(m, sym, message) ==
    IF message.kind = "depth" THEN
        IF m.lastUpdateId = Null \/ m.lastUpdateId = 0 THEN Note(m, message, "ignored")
        ELSE IF message.u > m.lastUpdateId THEN
            IF message.U <= m.lastUpdateId + 1
            THEN applyUpdate(Note(m, message, "applied"), message)
            ELSE connect_H2(close(Note(m, message, "gap"), m.ws), sym, sym)
        ELSE Note(m, message, "stale")
    ELSE IF message.kind = "trade" THEN addTrade(m, message)
    ELSE m

\* a replay that takes the queue from its end
RECURSIVE forEach_Reversed(_, _, _)
forEach_Reversed(m, sym, queue) ==
    IF queue = <<>> THEN m
    ELSE forEach_Reversed(processMessage_H2(m, sym, queue[Len(queue)]), sym,
                          SubSeq(queue, 1, Len(queue) - 1))

RECURSIVE forEach_H2(_, _, _)
forEach_H2(m, sym, queue) ==
    IF queue = <<>> THEN m
    ELSE forEach_H2(processMessage_H2(m, sym, Head(queue)), sym, Tail(queue))

snapshot_H2(m, c, snapshot) ==
    IF m.conn[c].symbol # m.conn[c].currentSymbol
    THEN [m EXCEPT !.conn[c].st = "returned"]
    ELSE LET m1 == [m EXCEPT !.lastUpdateId = snapshot.lastUpdateId,
                             !.orderBook = orderBookReducer(@,
                                 [type |-> "INIT", bids |-> snapshot.bids,
                                  asks |-> snapshot.asks]),
                             !.isFetchingSnapshot = FALSE,
                             !.status = "connected",
                             !.conn[c].st = "returned",
                             !.eventQueue = <<>>]
         IN forEach_H2(m1, m.conn[c].symbol, m.eventQueue)

catch_H2(m, c) ==
    close([m EXCEPT !.status = "error", !.conn[c].st = "returned"], m.ws)

onopen_H2(m, w) == m

onmessage_H2(m, w, message) ==
    IF m.isFetchingSnapshot
    THEN [m EXCEPT !.eventQueue = Append(@, message)]
    ELSE processMessage_H2(m, m.conn[w].symbol, message)

onclose_H2(m, w) ==
    IF m.ws = w THEN [m EXCEPT !.status = "disconnected"] ELSE m

onerror_H2(m, w) ==
    IF m.ws = w THEN [m EXCEPT !.status = "error"] ELSE m

cleanup_H2(m) ==
    IF m.ws # NoSocket THEN [close(m, m.ws) EXCEPT !.ws = NoSocket] ELSE m

----------------------------------------------------------------------------
(* Revision U2: unnamed/part_002. *)

processMessage_U2(m, message) ==
    IF message.kind = "depth" THEN
        IF m.lastUpdateId = Null THEN Note(m, message, "ignored")
        ELSE IF message.u <= m.lastUpdateId THEN Note(m, message, "stale")
        ELSE IF /\ message.U <= m.lastUpdateId + 1
                /\ message.u >= m.lastUpdateId + 1
             THEN applyUpdate(Note(m, message, "applied"), message)
        ELSE IF message.U > m.lastUpdateId + 1
             THEN close(Note(m, message, "gap"), m.ws)
        ELSE applyUpdate(Note(m, message, "else"), message)
    ELSE IF message.kind = "trade" THEN addTrade(m, message)
    ELSE m

RECURSIVE forEach_U2(_, _)
forEach_U2(m, queue) ==
    IF queue = <<>> THEN m
    ELSE forEach_U2(processMessage_U2(m, Head(queue)), Tail(queue))

connect_U2(m, sym, currentSymbol) ==
    LET m1 == close(m, m.ws)
    IN invoke([m1 EXCEPT !.status = "connecting",
                  !.orderBook = orderBookReducer(@, [type |-> "RESET"]),
                  !.trades = <<>>,
                  !.eventQueue = <<>>,
                  !.lastUpdateId = Null,
                  !.isFetchingSnapshot = TRUE],
              Invocation(sym, currentSymbol))

snapshot_U2(m, c, snapshot) ==
    IF m.conn[c].symbol # m.conn[c].currentSymbol
    THEN [m EXCEPT !.conn[c].st = "returned"]
    ELSE LET m1 == [m EXCEPT !.lastUpdateId = snapshot.lastUpdateId,
                             !.orderBook = orderBookReducer(@,
                                 [type |-> "INIT", bids |-> snapshot.bids,
                                  asks |-> snapshot.asks]),
                             !.isFetchingSnapshot = FALSE,
                             !.conn[c].st = "returned"]
         IN newWebSocket(m1, c)

catch_U2(m, c) ==
    close([m EXCEPT !.status = "error", !.conn[c].st = "returned"], m.ws)

onopen_U2(m, w) ==
    IF m.ws = w
    THEN forEach_U2([m EXCEPT !.status = "connected", !.eventQueue = <<>>],
                    m.eventQueue)
    ELSE m

onmessage_U2(m, w, message) ==
    IF m.isFetchingSnapshot
    THEN [m EXCEPT !.eventQueue = Append(@, message)]
    ELSE processMessage_U2(m, message)

onclose_U2(m, w) ==
    IF m.ws = w THEN [m EXCEPT !.status = "disconnected"] ELSE m

onerror_U2(m, w) ==
    close(IF m.ws = w THEN [m EXCEPT !.status = "error"] ELSE m, w)

cleanup_U2(m) ==
    IF m.ws # NoSocket
    THEN [close([m EXCEPT !.sock[m.ws].onclose = FALSE,
                          !.sock[m.ws].onerror = FALSE], m.ws)
             EXCEPT !.ws = NoSocket]
    ELSE m

----------------------------------------------------------------------------
(* Revision U1: unnamed/part_001.  connect is a closure of the effect, with  *)
(* the effect's isMounted flag; each effect calls it once.                   *)

processMessage_U1(m, message) ==
    IF message.kind = "depth" THEN
        IF m.lastUpdateId = Null THEN Note(m, message, "ignored")
        ELSE IF message.u <= m.lastUpdateId THEN Note(m, message, "stale")
        ELSE IF /\ message.U <= m.lastUpdateId + 1
                /\ message.u >= m.lastUpdateId + 1
             THEN applyUpdate(Note(m, message, "applied"), message)
        ELSE IF message.U > m.lastUpdateId + 1
             THEN close(Note(m, message, "gap"), m.ws)
        ELSE applyUpdate(Note(m, message, "else"), message)
    ELSE IF message.kind = "trade" THEN addTrade(m, message)
    ELSE m

RECURSIVE forEach_U1(_, _)
forEach_U1(m, queue) ==
    IF queue = <<>> THEN m
    ELSE forEach_U1(processMessage_U1(m, Head(queue)), Tail(queue))

connect_U1(m, sym, currentSymbol) ==
    LET m1 == close(m, m.ws)
    IN invoke([m1 EXCEPT !.status = "connecting",
                  !.orderBook = orderBookReducer(@, [type |-> "RESET"]),
                  !.trades = <<>>,
                  !.eventQueue = <<>>,
                  !.lastUpdateId = Null,
                  !.isFetchingSnapshot = TRUE],
              Invocation(sym, currentSymbol))

\* eventQueue.current.filter(e => e.data.u > snapshot.lastUpdateId): a trade has
\* no u, and undefined > n is false
RECURSIVE filter_U1(_, _)
filter_U1(queue, snapshot) ==
    IF queue = <<>> THEN <<>>
    ELSE IF Head(queue).kind = "depth" /\ Head(queue).u > snapshot.lastUpdateId
         THEN <<Head(queue)>> \o filter_U1(Tail(queue), snapshot)
         ELSE filter_U1(Tail(queue), snapshot)

snapshot_U1(m, c, snapshot) ==
    IF ~m.conn[c].isMounted \/ m.conn[c].currentSymbol # m.conn[c].symbol
    THEN [m EXCEPT !.conn[c].st = "returned"]
    ELSE LET m1 == [m EXCEPT !.lastUpdateId = snapshot.lastUpdateId,
                             !.orderBook = orderBookReducer(@,
                                 [type |-> "INIT", bids |-> snapshot.bids,
                                  asks |-> snapshot.asks]),
                             !.conn[c].st = "returned"]
             m2 == forEach_U1(m1, filter_U1(m1.eventQueue, snapshot))
             m3 == [m2 EXCEPT !.isFetchingSnapshot = FALSE, !.eventQueue = <<>>]
         IN newWebSocket(m3, c)

catch_U1(m, c) ==
    close([m EXCEPT !.status = IF m.conn[c].isMounted THEN "error" ELSE @,
                    !.conn[c].st = "returned"], m.ws)

onopen_U1(m, w) ==
    IF m.ws = w THEN [m EXCEPT !.status = "connected"] ELSE m

onmessage_U1(m, w, message) ==
    IF m.isFetchingSnapshot
    THEN [m EXCEPT !.eventQueue = Append(@, message)]
    ELSE processMessage_U1(m, message)

onclose_U1(m, w) ==
    IF m.ws = w THEN [m EXCEPT !.status = "disconnected"] ELSE m

onerror_U1(m, w) ==
    close(IF m.ws = w THEN [m EXCEPT !.status = "error"] ELSE m, w)

cleanup_U1(m) ==
    LET m1 == [m EXCEPT !.conn = [c \in DOMAIN @ |-> [@[c] EXCEPT !.isMounted = FALSE]]]
    IN IF m1.ws # NoSocket
       THEN [close([m1 EXCEPT !.sock[m1.ws].onclose = FALSE,
                              !.sock[m1.ws].onerror = FALSE], m1.ws)
                EXCEPT !.ws = NoSocket]
       ELSE m1

----------------------------------------------------------------------------
(* Revision U0: unnamed/part_000.  eventQueue, lastUpdateId and              *)
(* isFetchingSnapshot are variables of the effect, not refs: the variables   *)
(* of the model hold those of the mounted effect, unmounted[c] those that    *)
(* the handlers made by connect c see once c's effect was cleaned up.        *)

\* lastUpdateId! + 1, where null + 1 is 1
plusOne(S) == IF S = Null THEN 1 ELSE S + 1

Locals(m) ==
    [eventQueue |-> m.eventQueue, lastUpdateId |-> m.lastUpdateId,
     isFetchingSnapshot |-> m.isFetchingSnapshot]

\* a handler made by connect c runs on the variables of c's effect: exchange
\* them with the model's before and after (no exchange while c's effect is mounted)
closure_U0(m, c) ==
    IF m.conn[c].isMounted THEN m
    ELSE [m EXCEPT !.eventQueue = m.unmounted[c].eventQueue,
                   !.lastUpdateId = m.unmounted[c].lastUpdateId,
                   !.isFetchingSnapshot = m.unmounted[c].isFetchingSnapshot,
                   !.unmounted[c] = Locals(m)]

connect_U0(m, sym) ==
    LET m1 == close(m, m.ws)
    IN invoke([m1 EXCEPT !.status = "connecting",
                         !.orderBook = orderBookReducer(@, [type |-> "RESET"]),
                         !.trades = <<>>,
                         !.eventQueue = <<>>,
                         !.lastUpdateId = Null,
                         !.isFetchingSnapshot = TRUE],
              Invocation(sym, sym))

\* connect c resumed with the response of fetch: parsing its body is a second await
response_U0(m, c) ==
    IF ~m.conn[c].isMounted
    THEN [m EXCEPT !.conn[c].st = "returned"]
    ELSE [m EXCEPT !.conn[c].st = "parsing"]

\* eventQueue.forEach of the queued events, every one against snapshot.lastUpdateId
RECURSIVE replay_U0(_, _, _, _)
replay_U0(m, queue, snapshot, updatesToApply) ==
    IF queue = <<>> THEN [m |-> m, updatesToApply |-> updatesToApply]
    ELSE LET update == Head(queue)
             noted(out) == [m EXCEPT !.gate = Append(@,
                               [U |-> update.U, u |-> update.u,
                                S |-> snapshot.lastUpdateId, out |-> out])]
         IN IF update.u > snapshot.lastUpdateId
            THEN IF /\ update.U <= snapshot.lastUpdateId + 1
                    /\ update.u >= snapshot.lastUpdateId + 1
                 THEN replay_U0([noted("applied") EXCEPT !.lastUpdateId = update.u],
                                Tail(queue), snapshot,
                                [bids |-> updatesToApply.bids \o update.b,
                                 asks |-> updatesToApply.asks \o update.a])
                 ELSE IF update.U > snapshot.lastUpdateId + 1
                 THEN replay_U0(close(noted("gap"), m.ws), Tail(queue), snapshot,
                                updatesToApply)
                 ELSE replay_U0(noted("else"), Tail(queue), snapshot, updatesToApply)
            ELSE replay_U0(noted("stale"), Tail(queue), snapshot, updatesToApply)

\* connect c resumed with the parsed snapshot
snapshot_U0(m, c, snapshot) ==
    LET m0 == closure_U0(m, c)
        m1 == [m0 EXCEPT !.lastUpdateId = snapshot.lastUpdateId,
                         !.orderBook = orderBookReducer(@,
                             [type |-> "INIT", bids |-> snapshot.bids,
                              asks |-> snapshot.asks]),
                         !.conn[c].st = "returned"]
        r == replay_U0(m1, m1.eventQueue, snapshot, [bids |-> <<>>, asks |-> <<>>])
        m2 == IF Len(r.updatesToApply.bids) > 0 \/ Len(r.updatesToApply.asks) > 0
              THEN [r.m EXCEPT !.orderBook = orderBookReducer(@,
                                   [type |-> "UPDATE", bids |-> r.updatesToApply.bids,
                                    asks |-> r.updatesToApply.asks])]
              ELSE r.m
        m3 == [m2 EXCEPT !.eventQueue = <<>>, !.isFetchingSnapshot = FALSE]
    IN closure_U0(newWebSocket(m3, c), c)

catch_U0(m, c) ==
    [m EXCEPT !.status = IF m.conn[c].isMounted THEN "error" ELSE @,
              !.conn[c].st = "returned"]

onopen_U0(m, w) ==
    IF m.conn[w].isMounted THEN [m EXCEPT !.status = "connected"] ELSE m

onmessage_U0(m, w, message) ==
    LET m0 == closure_U0(m, w)
        m1 == IF message.kind = "depth" THEN
                  IF m0.isFetchingSnapshot
                  THEN [m0 EXCEPT !.eventQueue = Append(@, message)]
                  ELSE IF /\ message.U <= plusOne(m0.lastUpdateId)
                          /\ message.u >= plusOne(m0.lastUpdateId)
                       THEN applyUpdate(Note(m0, message, "applied"), message)
                  ELSE IF message.U > plusOne(m0.lastUpdateId)
                       THEN close(Note(m0, message, "gap"), m0.ws)
                  ELSE Note(m0, message, "stale")
              ELSE IF message.kind = "trade" THEN addTrade(m0, message)
              ELSE m0
    IN closure_U0(m1, w)

onerror_U0(m, w) ==
    IF m.conn[w].isMounted THEN [m EXCEPT !.status = "error"] ELSE m

\* a close handler that reconnects at once
onclose_U0_WithoutDelay(m, w) ==
    IF m.conn[w].isMounted /\ m.ws = w
    THEN connect_U0([m EXCEPT !.status = "disconnected"], m.conn[w].symbol)
    ELSE m

\* the close handler sets the 5 s reconnect timer
onclose_U0(m, w) ==
    IF m.conn[w].isMounted
    THEN [m EXCEPT !.status = "disconnected", !.sock[w].timer = TRUE]
    ELSE m

\* the reconnect timer of socket w expires
timeout_U0(m, w) ==
    LET m1 == [m EXCEPT !.sock[w].timer = FALSE]
    IN IF m.conn[w].isMounted /\ m.ws = w
       THEN connect_U0(m1, m.conn[w].symbol)
       ELSE m1

cleanup_U0(m) ==
    LET m1 == [m EXCEPT !.conn = [c \in DOMAIN @ |-> [@[c] EXCEPT !.isMounted = FALSE]],
                        !.unmounted = [c \in DOMAIN @ |->
                                          IF m.conn[c].isMounted THEN Locals(m) ELSE @[c]],
                        !.eventQueue = <<>>,
                        !.lastUpdateId = Null,
                        !.isFetchingSnapshot = FALSE]
    IN IF m1.ws # NoSocket
       THEN [close([m1 EXCEPT !.sock[m1.ws].onclose = FALSE], m1.ws)
                EXCEPT !.ws = NoSocket]
       ELSE m1

----------------------------------------------------------------------------
(* The hook as a state machine. *)

\* useReducer / useState / useRef initial values, before the first effect
Blank ==
    [ws |-> NoSocket, lastUpdateId |-> Null, eventQueue |-> <<>>,
     isFetchingSnapshot |-> FALSE, orderBook |-> EmptyBook, trades |-> <<>>,
     status |-> "connecting", conn |-> [c \in Slots |-> Returned],
     sock |-> [c \in Slots |-> NoWebSocket], unmounted |-> [c \in Slots |-> NoLocals],
     latest |-> 0, overflow |-> FALSE, gate |-> <<>>]

connect(h, m, sym) ==
    CASE h = "H1" -> connect_H1(m, sym, sym)
      [] h = "H2" -> connect_H2(m, sym, sym)
      [] h = "U0" -> connect_U0(m, sym)
      [] h = "U1" -> connect_U1(m, sym, sym)
      [] h = "U2" -> connect_U2(m, sym, sym)

cleanup(h, m) ==
    CASE h = "H1" -> cleanup_H1(m)
      [] h = "H2" -> cleanup_H2(m)
      [] h = "U0" -> cleanup_U0(m)
      [] h = "U1" -> cleanup_U1(m)
      [] h = "U2" -> cleanup_U2(m)

snapshot(h, m, c, s) ==
    CASE h = "H1" -> snapshot_H1(m, c, s)
      [] h = "H2" -> snapshot_H2(m, c, s)
      [] h = "U0" -> snapshot_U0(m, c, s)
      [] h = "U1" -> snapshot_U1(m, c, s)
      [] h = "U2" -> snapshot_U2(m, c, s)

catch(h, m, c) ==
    CASE h = "H1" -> catch_H1(m, c)
      [] h = "H2" -> catch_H2(m, c)
      [] h = "U0" -> catch_U0(m, c)
      [] h = "U1" -> catch_U1(m, c)
      [] h = "U2" -> catch_U2(m, c)

onopen(h, m, w) ==
    CASE h = "H1" -> onopen_H1(m, w)
      [] h = "H2" -> onopen_H2(m, w)
      [] h = "U0" -> onopen_U0(m, w)
      [] h = "U1" -> onopen_U1(m, w)
      [] h = "U2" -> onopen_U2(m, w)

onmessage(h, m, w, message) ==
    CASE h = "H1" -> onmessage_H1(m, w, message)
      [] h = "H2" -> onmessage_H2(m, w, message)
      [] h = "U0" -> onmessage_U0(m, w, message)
      [] h = "U1" -> onmessage_U1(m, w, message)
      [] h = "U2" -> onmessage_U2(m, w, message)

onerror(h, m, w) ==
    CASE h = "H1" -> onerror_H1(m, w)
      [] h = "H2" -> onerror_H2(m, w)
      [] h = "U0" -> onerror_U0(m, w)
      [] h = "U1" -> onerror_U1(m, w)
      [] h = "U2" -> onerror_U2(m, w)

onclose(h, m, w) ==
    CASE h = "H1" -> onclose_H1(m, w)
      [] h = "H2" -> onclose_H2(m, w)
      [] h = "U0" -> onclose_U0(m, w)
      [] h = "U1" -> onclose_U1(m, w)
      [] h = "U2" -> onclose_U2(m, w)

\* a run that is not recorded ("off"); of one acquisition the record keeps the
\* snapshot too ("acquisition"), otherwise the arrivals and applications
NoRun == [on |-> "off", snapshot |-> NoMsg, early |-> 0, deltas |-> <<>>, applied |-> <<>>]

\* nothing of the user interface is followed
NoUi == [on |-> "off"]

\* the depth updates a handler applied, from the branches it took
RECURSIVE AppliedOf(_)
AppliedOf(gate) ==
    IF gate = <<>> THEN <<>>
    ELSE (IF Head(gate).out \in {"applied", "else"}
          THEN <<[U |-> Head(gate).U, u |-> Head(gate).u]>> ELSE <<>>)
         \o AppliedOf(Tail(gate))

\* the record of the run after a handler
Record(r, op, arg, gate) ==
    IF r.on = "off" THEN r
    ELSE [r EXCEPT !.snapshot = IF op = "snapshot" /\ r.on = "acquisition" THEN arg ELSE @,
                   !.early = IF op = "snapshot" /\ r.on = "acquisition"
                             THEN Len(r.deltas) ELSE @,
                   !.deltas = IF op = "message"
                              THEN (IF arg.kind = "depth" THEN Append(@, arg) ELSE @)
                              ELSE @,
                   !.applied = @ \o AppliedOf(gate)]

\* within its bounds the model follows every handler to its end
InBounds(m) ==
    /\ ~m.overflow
    /\ Len(m.eventQueue) <= (IF run.on = "acquisition" THEN MaxEarly ELSE MaxQueue)
    /\ \A c \in Slots : Len(m.unmounted[c].eventQueue) <= MaxQueue
    /\ Len(m.trades) <= (IF run.on = "trades" THEN MaxFlowTrades ELSE MaxTrades)

\* the handler's result becomes the next state
Install(result, op, id, arg) ==
    \E n \in {result} :
        /\ InBounds(n)
        /\ \E m \in {Collect(n)} :
              /\ ws' = m.ws
              /\ lastUpdateId' = m.lastUpdateId
              /\ eventQueue' = m.eventQueue
              /\ isFetchingSnapshot' = m.isFetchingSnapshot
              /\ orderBook' = m.orderBook
              /\ trades' = m.trades
              /\ status' = m.status
              /\ conn' = m.conn
              /\ sock' = m.sock
              /\ unmounted' = m.unmounted
              /\ latest' = m.latest
              /\ last' = [op |-> op, id |-> id, arg |-> arg, gate |-> m.gate]
              /\ run' = Record(run, op, arg, m.gate)
              /\ ui' = ui

\* the state once the first effect has called connect
Mounted ==
    /\ hook \in Hooks
    /\ symbol = InitialPair
    /\ LET m == connect(hook, Blank, InitialPair)
       IN /\ ws = m.ws
          /\ lastUpdateId = m.lastUpdateId
          /\ eventQueue = m.eventQueue
          /\ isFetchingSnapshot = m.isFetchingSnapshot
          /\ orderBook = m.orderBook
          /\ trades = m.trades
          /\ status = m.status
          /\ conn = m.conn
          /\ sock = m.sock
          /\ unmounted = m.unmounted
          /\ latest = m.latest
          /\ last = [op |-> "mount", id |-> m.latest, arg |-> NoMsg, gate |-> <<>>]
    /\ ui = NoUi

Init == Mounted /\ run = NoRun

\* the user selects another pair: the effect's cleanup runs, then the new effect
SwitchSymbol ==
    \E s \in Symbols \ {symbol} :
        /\ symbol' = s
        /\ hook' = hook
        /\ LET m == connect(hook, cleanup(hook, Cur), s)
           IN Install(m, "switch", m.latest, NoMsg)

\* the fetch of connect c resolves with a response that is ok (U0 checks
\* isMounted here, before it awaits the body)
ResponseArrives ==
    \E c \in Slots :
        /\ hook = "U0"
        /\ conn[c].st = "fetching"
        /\ UNCHANGED <<hook, symbol>>
        /\ Install(response_U0(Cur, c), "response", c, NoMsg)

\* connect c has the parsed snapshot
SnapshotArrives ==
    \E c \in Slots, s \in Snapshots :
        /\ conn[c].st = IF hook = "U0" THEN "parsing" ELSE "fetching"
        /\ UNCHANGED <<hook, symbol>>
        /\ Install(snapshot(hook, Cur, c, s), "snapshot", c, s)

\* the fetch of connect c fails, answers with a non-success status, or its
\* body does not parse
SnapshotFails ==
    \E c \in Slots :
        /\ conn[c].st \in {"fetching", "parsing"}
        /\ UNCHANGED <<hook, symbol>>
        /\ Install(catch(hook, Cur, c), "catch", c, NoMsg)

SocketOpen ==
    \E w \in Slots :
        /\ sock[w].st = "connecting"
        /\ UNCHANGED <<hook, symbol>>
        /\ Install(onopen(hook, [Cur EXCEPT !.sock[w].st = "open"], w), "open", w, NoMsg)

SocketMessage ==
    \E w \in Slots, message \in Messages :
        /\ sock[w].st = "open"
        /\ UNCHANGED <<hook, symbol>>
        /\ Install(onmessage(hook, Cur, w, message), "message", w, message)

\* the transport fails: the error event, with the close event still to come
SocketError ==
    \E w \in Slots :
        /\ sock[w].st \in {"connecting", "open"}
        /\ UNCHANGED <<hook, symbol>>
        /\ LET m == [Cur EXCEPT !.sock[w].st = "closing"]
           IN Install(IF sock[w].onerror THEN onerror(hook, m, w) ELSE m,
                      "error", w, NoMsg)

\* the close event: after close(), after an error, or when the server closes
SocketClose ==
    \E w \in Slots :
        /\ sock[w].st \in {"open", "closing"}
        /\ UNCHANGED <<hook, symbol>>
        /\ LET m == [Cur EXCEPT !.sock[w].st = "closed"]
           IN Install(IF sock[w].onclose THEN onclose(hook, m, w) ELSE m,
                      "close", w, NoMsg)

\* the reconnect timer set by a close handler of U0 expires
TimerFires ==
    \E w \in Slots :
        /\ sock[w].timer
        /\ UNCHANGED <<hook, symbol>>
        /\ Install(timeout_U0(Cur, w), "timeout", w, NoMsg)

Next ==
    \/ SwitchSymbol
    \/ ResponseArrives
    \/ SnapshotArrives
    \/ SnapshotFails
    \/ SocketOpen
    \/ SocketMessage
    \/ SocketError
    \/ SocketClose
    \/ TimerFires

Spec == Init /\ [][Next]_vars

\* The browser delivers what is pending: a fetch settles, a socket that is
\* connecting opens or fails, a socket that is closing gets its close event, a
\* timer that was set expires.  Nothing obliges the user to switch the pair, the
\* server to send, or the transport to fail.
FairSpec ==
    /\ Spec
    /\ WF_vars(ResponseArrives)
    /\ \A c \in Slots : WF_vars((SnapshotArrives \/ SnapshotFails) /\ last'.id = c)
    /\ WF_vars(SocketOpen)
    /\ \A w \in Slots : WF_vars(SocketClose /\ sock[w].st = "closing" /\ last'.id = w)
    /\ WF_vars(TimerFires)

----------------------------------------------------------------------------
(* One acquisition, recorded: the pair is not switched and nothing fails; up  *)
(* to MaxEarly depth updates arrive before the snapshot, then the snapshot,   *)
(* then up to MaxLate depth updates.                                          *)

ReplayInit == Mounted /\ run = [NoRun EXCEPT !.on = "acquisition"]

\* a depth update arrives before the snapshot has
ArriveEarly ==
    /\ run.snapshot = NoMsg
    /\ Len(run.deltas) < MaxEarly
    /\ SocketMessage
    /\ last'.arg.kind = "depth"

\* the one snapshot of the run
ReplaySnapshot ==
    /\ run.snapshot = NoMsg
    /\ SnapshotArrives

\* a depth update arrives after the snapshot
ArriveLate ==
    /\ run.snapshot # NoMsg
    /\ Len(run.deltas) - run.early < MaxLate
    /\ SocketMessage
    /\ last'.arg.kind = "depth"

ReplayNext ==
    \/ ResponseArrives
    \/ SocketOpen
    \/ ArriveEarly
    \/ ReplaySnapshot
    \/ ArriveLate

ReplaySpec == ReplayInit /\ [][ReplayNext]_vars

----------------------------------------------------------------------------
(* The hook with its run recorded: the pair may be switched and sockets may   *)
(* close; up to MaxArrivals depth updates arrive, on any open socket.         *)

TraceInit == Mounted /\ run = [NoRun EXCEPT !.on = "arrivals"]

Arrive ==
    /\ Len(run.deltas) < MaxArrivals
    /\ SocketMessage
    /\ last'.arg.kind = "depth"

TraceNext ==
    \/ SwitchSymbol
    \/ ResponseArrives
    \/ SnapshotArrives
    \/ SocketOpen
    \/ Arrive
    \/ SocketClose

TraceSpec == TraceInit /\ [][TraceNext]_vars

----------------------------------------------------------------------------
(* The hook with trades on its stream: the pair may be switched; up to        *)
(* MaxFlowDeltas depth updates and any trades arrive, on any open socket, the *)
(* trade ids in any order.                                                    *)

FlowInit == Mounted /\ run = [NoRun EXCEPT !.on = "trades"]

DepthDelivered ==
    /\ Len(run.deltas) < MaxFlowDeltas
    /\ SocketMessage
    /\ last'.arg.kind = "depth"

TradeDelivered ==
    \E w \in Slots, trade \in FlowTrades :
        /\ sock[w].st = "open"
        /\ UNCHANGED <<hook, symbol>>
        /\ Install(onmessage(hook, Cur, w, trade), "message", w, trade)

FlowNext ==
    \/ SwitchSymbol
    \/ ResponseArrives
    \/ SnapshotArrives
    \/ SocketOpen
    \/ DepthDelivered
    \/ TradeDelivered

FlowSpec == FlowInit /\ [][FlowNext]_vars

----------------------------------------------------------------------------
(* One table of the order book alone (order-book-table.tsx): the Map it is    *)
(* given, ui.data, as its entries in insertion order, and the rows it shows,  *)
(* ui.processedData.  Levels are set one after the other, their prices in an  *)
(* order fixed by ui.stride and ui.offset, and the oldest may be deleted.     *)

MaxDepth == 20
Strides == {1, 5, 11}
Offsets == 0..2
Amounts == <<"2", "3", "0.00000000">>

\* the comparator of entries.sort
compare(type, a, b) ==
    IF type = "bids"
    THEN parseFloat(b[1]) - parseFloat(a[1])
    ELSE parseFloat(a[1]) - parseFloat(b[1])

\* Array.prototype.sort is stable: an entry goes behind those it does not precede
RECURSIVE insert(_, _, _)
insert(type, sorted, entry) ==
    IF sorted = <<>> THEN <<entry>>
    ELSE IF compare(type, Head(sorted), entry) <= 0
         THEN <<Head(sorted)>> \o insert(type, Tail(sorted), entry)
         ELSE <<entry>> \o sorted

RECURSIVE sort(_, _)
sort(type, entries) ==
    IF entries = <<>> THEN <<>>
    ELSE insert(type, sort(type, SubSeq(entries, 1, Len(entries) - 1)),
                entries[Len(entries)])

\* array.slice(0, end)
slice(array, end) == SubSeq(array, 1, IF Len(array) < end THEN Len(array) ELSE end)

\* a slice taken before the sort
sortedEntries_SlicedFirst(data, type) == sort(type, slice(data, MaxDepth))

sortedEntries(data, type) == slice(sort(type, data), MaxDepth)

\* cumulativeTotal after the first i amounts
RECURSIVE cumulativeTotal(_, _)
cumulativeTotal(rows, i) ==
    IF i = 0 THEN 0 ELSE cumulativeTotal(rows, i - 1) + parseFloat(rows[i][2])

\* the useMemo of OrderBookTable; depth is the share of the last total, here in
\* whole percent
processedData(data, type) ==
    LET rows == sortedEntries(data, type)
        totals == [i \in 1..Len(rows) |-> cumulativeTotal(rows, i)]
        maxTotal == IF Len(rows) = 0 THEN 0 ELSE totals[Len(rows)]
    IN [i \in 1..Len(rows) |->
           [price |-> rows[i][1], amount |-> rows[i][2], total |-> totals[i],
            depth |-> IF maxTotal > 0 THEN (totals[i] * 100) \div maxTotal ELSE 0]]

ViewInit ==
    /\ hook = "H1"
    /\ symbol = InitialPair
    /\ ws = Blank.ws
    /\ lastUpdateId = Blank.lastUpdateId
    /\ eventQueue = Blank.eventQueue
    /\ isFetchingSnapshot = Blank.isFetchingSnapshot
    /\ orderBook = Blank.orderBook
    /\ trades = Blank.trades
    /\ status = Blank.status
    /\ conn = Blank.conn
    /\ sock = Blank.sock
    /\ unmounted = Blank.unmounted
    /\ latest = Blank.latest
    /\ last = [op |-> "render", id |-> 0, arg |-> NoMsg, gate |-> <<>>]
    /\ run = NoRun
    /\ ui \in [on : {"table"}, type : {"bids", "asks"}, stride : Strides,
                offset : Offsets, count : {0}, data : {<<>>},
                processedData : {<<>>}]

\* the table is rendered with the Map changed to data
Render(data, op) ==
    /\ ui' = [ui EXCEPT !.data = data,
                        !.count = IF op = "set" THEN @ + 1 ELSE @,
                        !.processedData = processedData(data, ui.type)]
    /\ last' = [last EXCEPT !.op = op]
    /\ UNCHANGED <<hook, symbol, ws, lastUpdateId, eventQueue, isFetchingSnapshot,
                   orderBook, trades, status, conn, sock, unmounted, latest, run>>

\* a level is set at a price the Map does not hold
SetLevel ==
    /\ ui.count <= HighestPrice - LowestPrice
    /\ LET n == LowestPrice + ((ui.offset + ui.stride * ui.count)
                                  % (HighestPrice - LowestPrice + 1))
       IN /\ \A k \in 1..Len(ui.data) : ui.data[k][1] # Decimal(n)
          /\ Render(Append(ui.data, <<Decimal(n), Amounts[(ui.count % 3) + 1]>>), "set")

\* the level set first is deleted
DeleteLevel ==
    /\ ui.data # <<>>
    /\ Render(Tail(ui.data), "delete")

ViewNext ==
    \/ SetLevel
    \/ DeleteLevel

ViewSpec == ViewInit /\ [][ViewNext]_vars

----------------------------------------------------------------------------
(* One acquisition against a source that issues the depth updates 1, 2, 3,    *)
(* each covering one id, and a transport that delivers every one of them, in  *)
(* order and once, to the socket that is open when it is issued: run.deltas   *)
(* holds what the source has issued so far.  The snapshot is one the source   *)
(* served at some moment up to now.                                            *)

StreamInit == Mounted /\ run = [NoRun EXCEPT !.on = "stream"]

\* the next depth update of the source
NextDelta == CHOOSE d \in DepthUpdates : d.U = Len(run.deltas) + 1 /\ d.u = d.U

\* the source issues its next update and the open socket delivers it
StreamDelivers ==
    \E w \in Slots :
        /\ Len(run.deltas) < MaxUpdateId
        /\ sock[w].st = "open"
        /\ UNCHANGED <<hook, symbol>>
        /\ Install(onmessage(hook, Cur, w, NextDelta), "message", w, NextDelta)

\* the source issues its next update while no socket is open to receive it
StreamUnheard ==
    /\ Len(run.deltas) < MaxUpdateId
    /\ \A w \in Slots : sock[w].st # "open"
    /\ run' = [run EXCEPT !.deltas = Append(@, NextDelta)]
    /\ UNCHANGED <<hook, symbol, ws, lastUpdateId, eventQueue, isFetchingSnapshot,
                   orderBook, trades, status, conn, sock, unmounted, latest, last, ui>>

\* the snapshot arrives: its baseline is an id the source has issued
StreamSnapshot ==
    /\ SnapshotArrives
    /\ last'.arg.lastUpdateId <= Len(run.deltas)

StreamNext ==
    \/ ResponseArrives
    \/ SocketOpen
    \/ StreamDelivers
    \/ StreamUnheard
    \/ StreamSnapshot

StreamSpec == StreamInit /\ [][StreamNext]_vars

----------------------------------------------------------------------------
(* One acquisition with the update ids of a running stream: the snapshot has  *)
(* a baseline around 1000, and up to MaxLate depth updates arrive whose ids   *)
(* lie around it and whose level lists may be empty.                          *)

ExampleIds == 999..1002

ExampleSnapshots ==
    [lastUpdateId : {999, 1000},
     bids : { <<>>, << <<"100.00", "2">> >> },
     asks : { << <<"101.00", "3">> >> }]

ExampleUpdates ==
    { d \in [kind : {"depth"}, U : ExampleIds, u : ExampleIds,
             b : { <<>>, << <<"100.00", "0">> >>, << <<"100.00", "3">> >> },
             a : { <<>>, << <<"101.00", "0">> >> }] : d.U <= d.u }

ExampleSnapshot ==
    \E c \in Slots, s \in ExampleSnapshots :
        /\ run.snapshot = NoMsg
        /\ conn[c].st = IF hook = "U0" THEN "parsing" ELSE "fetching"
        /\ UNCHANGED <<hook, symbol>>
        /\ Install(snapshot(hook, Cur, c, s), "snapshot", c, s)

ExampleUpdate ==
    \E w \in Slots, message \in ExampleUpdates :
        /\ Len(run.deltas) < MaxLate
        /\ sock[w].st = "open"
        /\ UNCHANGED <<hook, symbol>>
        /\ Install(onmessage(hook, Cur, w, message), "message", w, message)

ExampleNext ==
    \/ ResponseArrives
    \/ SocketOpen
    \/ ExampleSnapshot
    \/ ExampleUpdate

ExampleSpec == ReplayInit /\ [][ExampleNext]_vars

----------------------------------------------------------------------------
(* The reducer on its own: from the empty book of useReducer, any INIT,       *)
(* UPDATE or RESET action whose level lists hold up to MaxLevels levels, with *)
(* zero quantities and repeated prices among them.  The five revisions share  *)
(* the reducer (part_000 names INIT 'SET_SNAPSHOT').                          *)

Prices == {"100.00", "101.00"}
Quantities == {"0.00000000", "2", "3"}
Levels == { <<p, q>> : p \in Prices, q \in Quantities }
LevelLists == UNION { [1..n -> Levels] : n \in 0..MaxLevels }
AskLists == { <<>>, << <<"101.00", "3">> >>, << <<"101.00", "0">> >> }

BookInit ==
    /\ hook = "H1"
    /\ symbol = InitialPair
    /\ ws = Blank.ws
    /\ lastUpdateId = Blank.lastUpdateId
    /\ eventQueue = Blank.eventQueue
    /\ isFetchingSnapshot = Blank.isFetchingSnapshot
    /\ orderBook = Blank.orderBook
    /\ trades = Blank.trades
    /\ status = Blank.status
    /\ conn = Blank.conn
    /\ sock = Blank.sock
    /\ unmounted = Blank.unmounted
    /\ latest = Blank.latest
    /\ last = [op |-> "render", id |-> 0, arg |-> NoMsg, gate |-> <<>>,
               from |-> Blank.orderBook]
    /\ run = NoRun
    /\ ui = NoUi

\* dispatch(action): the book becomes what the reducer returns; the step keeps
\* the action and the book it was applied to
Dispatch(action) ==
    /\ orderBook' = orderBookReducer(orderBook, action)
    /\ last' = [op |-> "dispatch", id |-> 0, arg |-> action, gate |-> <<>>,
                from |-> orderBook]
    /\ UNCHANGED <<hook, symbol, ws, lastUpdateId, eventQueue, isFetchingSnapshot,
                   trades, status, conn, sock, unmounted, latest, run, ui>>

DispatchInit ==
    \E action \in [type : {"INIT"}, bids : LevelLists, asks : AskLists] :
        /\ action.type = "INIT"
        /\ Dispatch(action)

DispatchUpdate ==
    \E action \in [type : {"UPDATE"}, bids : LevelLists, asks : AskLists] :
        /\ action.type = "UPDATE"
        /\ Dispatch(action)

DispatchReset ==
    \E action \in [type : {"RESET"}] :
        /\ action.type = "RESET"
        /\ Dispatch(action)

BookNext ==
    \/ DispatchInit
    \/ DispatchUpdate
    \/ DispatchReset

BookSpec == BookInit /\ [][BookNext]_vars

----------------------------------------------------------------------------
(* The list of recent trades alone: the aggregate trades of the stream arrive *)
(* one after the other, numbered as they arrive (last.id counts them), and a   *)
(* connect may clear the list in between.  last.from keeps the list before.   *)

MaxTradeId == 60

\* nothing has arrived yet
TradeInit == BookInit

\* setTrades(prev => [trade, ...prev].slice(0, 50)) with the next trade
TradeArrives ==
    /\ last.id < MaxTradeId
    /\ \E trade \in [kind : {"trade"}, t : {last.id + 1}] :
          /\ trades' = addTrade(Cur, trade).trades
          /\ last' = [op |-> "trade", id |-> trade.t, arg |-> trade, gate |-> <<>>,
                      from |-> trades]
    /\ UNCHANGED <<hook, symbol, ws, lastUpdateId, eventQueue, isFetchingSnapshot,
                   orderBook, status, conn, sock, unmounted, latest, run, ui>>

\* setTrades([]) of connect
TradesCleared ==
    /\ trades # <<>>
    /\ trades' = <<>>
    /\ last' = [op |-> "clear", id |-> last.id, arg |-> NoMsg, gate |-> <<>>,
                from |-> trades]
    /\ UNCHANGED <<hook, symbol, ws, lastUpdateId, eventQueue, isFetchingSnapshot,
                   orderBook, status, conn, sock, unmounted, latest, run, ui>>

TradeNext ==
    \/ TradeArrives
    \/ TradesCleared

TradeSpec == TradeInit /\ [][TradeNext]_vars

----------------------------------------------------------------------------
(* The throttling effect alone (lines 191..209, the same in every revision):  *)
(* the book changes by dispatch, every change renders and runs the effect.    *)
(* ui.late says that more than THROTTLE_MS have passed since                  *)
(* lastUpdate.current; ui.timer is the book the pending timeout will publish. *)
(* The two setState calls of one publication are batched into one render.     *)

NoTimer == [kind |-> "none"]

\* the bids of a snapshot or of a depth update: no level or one
BidLists == { levels \in LevelLists : Len(levels) <= 1 }

\* setThrottledBids(new Map(book.bids)); setThrottledAsks(new Map(book.asks));
\* lastUpdate.current = now
updateUi(u, book) ==
    [u EXCEPT !.throttledBids = book.bids, !.throttledAsks = book.asks,
              !.late = FALSE, !.timer = NoTimer]

\* an effect that sets no timer
effect_WithoutTimer(u, book) ==
    IF u.late THEN updateUi(u, book) ELSE [u EXCEPT !.timer = NoTimer]

\* the effect after a render with a new book: the cleanup of the effect before
\* has cleared its timer
effect(u, book) ==
    IF u.late THEN updateUi(u, book) ELSE [u EXCEPT !.timer = book]

\* the first render: lastUpdate.current is 0, the empty book is published
ThrottleInit ==
    /\ hook = "H1"
    /\ symbol = InitialPair
    /\ ws = Blank.ws
    /\ lastUpdateId = Blank.lastUpdateId
    /\ eventQueue = Blank.eventQueue
    /\ isFetchingSnapshot = Blank.isFetchingSnapshot
    /\ orderBook = Blank.orderBook
    /\ trades = Blank.trades
    /\ status = Blank.status
    /\ conn = Blank.conn
    /\ sock = Blank.sock
    /\ unmounted = Blank.unmounted
    /\ latest = Blank.latest
    /\ last = [op |-> "render", id |-> 0, arg |-> NoMsg, gate |-> <<>>]
    /\ run = NoRun
    /\ ui = [on |-> "hook", throttledBids |-> EmptyMap, throttledAsks |-> EmptyMap,
             late |-> FALSE, timer |-> NoTimer]

\* a dispatch changes the book; the render that follows runs the effect
BookChanges ==
    /\ \E action \in [type : {"INIT"}, bids : BidLists, asks : AskLists]
                  \cup [type : {"UPDATE"}, bids : BidLists, asks : AskLists]
                  \cup [type : {"RESET"}] :
          \E book \in {orderBookReducer(orderBook, action)} :
              /\ orderBook' = book
              /\ ui' = effect(ui, book)
              /\ last' = [op |-> "dispatch", id |-> 0, arg |-> action, gate |-> <<>>]
    /\ UNCHANGED <<hook, symbol, ws, lastUpdateId, eventQueue, isFetchingSnapshot,
                   trades, status, conn, sock, unmounted, latest, run>>

\* the pending timeout runs its callback
TimerExpires ==
    /\ ui.timer # NoTimer
    /\ ui' = updateUi(ui, ui.timer)
    /\ last' = [op |-> "timeout", id |-> 0, arg |-> NoMsg, gate |-> <<>>]
    /\ UNCHANGED <<hook, symbol, ws, lastUpdateId, eventQueue, isFetchingSnapshot,
                   orderBook, trades, status, conn, sock, unmounted, latest, run>>

\* time passes: the last publication is more than THROTTLE_MS ago
Elapse ==
    /\ ~ui.late
    /\ ui' = [ui EXCEPT !.late = TRUE]
    /\ UNCHANGED <<hook, symbol, ws, lastUpdateId, eventQueue, isFetchingSnapshot,
                   orderBook, trades, status, conn, sock, unmounted, latest, last, run>>

ThrottleNext ==
    \/ BookChanges
    \/ TimerExpires
    \/ Elapse

\* Time passes and a timeout that is pending runs; nothing obliges the book to
\* change.
ThrottleSpec ==
    /\ ThrottleInit
    /\ [][ThrottleNext]_vars
    /\ WF_vars(TimerExpires)
    /\ WF_vars(Elapse)

----------------------------------------------------------------------------
(* The throttling effect on a clock: ui.now is Date.now(), advancing by Tick, *)
(* ui.lastUpdate is lastUpdate.current, ui.timer the pending timeout with the *)
(* time it is due and the book it will publish, ui.at the time of the last    *)
(* publication and ui.before the time of the one before it.                   *)

THROTTLE_MS == 200
Tick == 50
MaxNow == 1000
StartTimes == {250, 275}

\* the publication at Date.now()
updateUiAt(u, book) ==
    [u EXCEPT !.throttledBids = book.bids, !.throttledAsks = book.asks,
              !.lastUpdate = u.now, !.timer = NoTimer,
              !.before = u.at, !.at = u.now]

\* an effect whose timeout has no delay
effectAt_WithoutDelay(u, book) ==
    IF u.now - u.lastUpdate > THROTTLE_MS
    THEN updateUiAt(u, book)
    ELSE [u EXCEPT !.timer = [due |-> u.now, book |-> book]]

\* the effect of a render at Date.now(): it publishes, or sets the timeout for
\* the rest of the interval (the cleanup of the effect before has cleared its
\* timeout)
effectAt(u, book) ==
    IF u.now - u.lastUpdate > THROTTLE_MS
    THEN updateUiAt(u, book)
    ELSE [u EXCEPT !.timer =
             [due |-> u.now + (THROTTLE_MS - (u.now - u.lastUpdate)), book |-> book]]

\* the hook before its first effect, at one of the start times
ClockInit ==
    /\ hook = "H1"
    /\ symbol = InitialPair
    /\ ws = Blank.ws
    /\ lastUpdateId = Blank.lastUpdateId
    /\ eventQueue = Blank.eventQueue
    /\ isFetchingSnapshot = Blank.isFetchingSnapshot
    /\ orderBook = Blank.orderBook
    /\ trades = Blank.trades
    /\ status = Blank.status
    /\ conn = Blank.conn
    /\ sock = Blank.sock
    /\ unmounted = Blank.unmounted
    /\ latest = Blank.latest
    /\ last = [op |-> "render", id |-> 0, arg |-> NoMsg, gate |-> <<>>]
    /\ run = NoRun
    /\ ui \in [on : {"clock"}, now : StartTimes, lastUpdate : {0},
                throttledBids : {EmptyMap}, throttledAsks : {EmptyMap},
                timer : {NoTimer}, at : {Null}, before : {Null}]

\* a dispatch at Date.now(); the render that follows runs the effect (the
\* first effect of the hook runs with the empty book)
DispatchAt ==
    /\ \E action \in [type : {"INIT"}, bids : BidLists, asks : {<<>>}]
                  \cup [type : {"RESET"}] :
          \E book \in {orderBookReducer(orderBook, action)} :
              /\ orderBook' = book
              /\ ui' = effectAt(ui, book)
              /\ last' = [op |-> "dispatch", id |-> 0, arg |-> action, gate |-> <<>>]
    /\ UNCHANGED <<hook, symbol, ws, lastUpdateId, eventQueue, isFetchingSnapshot,
                   trades, status, conn, sock, unmounted, latest, run>>

\* the timeout runs its callback, not before it is due
TimeoutAt ==
    /\ ui.timer # NoTimer
    /\ ui.now >= ui.timer.due
    /\ ui' = updateUiAt(ui, ui.timer.book)
    /\ last' = [op |-> "timeout", id |-> 0, arg |-> NoMsg, gate |-> <<>>]
    /\ UNCHANGED <<hook, symbol, ws, lastUpdateId, eventQueue, isFetchingSnapshot,
                   orderBook, trades, status, conn, sock, unmounted, latest, run>>

\* the clock advances
TimePasses ==
    /\ ui.now + Tick <= MaxNow
    /\ ui' = [ui EXCEPT !.now = @ + Tick]
    /\ UNCHANGED <<hook, symbol, ws, lastUpdateId, eventQueue, isFetchingSnapshot,
                   orderBook, trades, status, conn, sock, unmounted, latest, last, run>>

ClockNext ==
    \/ DispatchAt
    \/ TimeoutAt
    \/ TimePasses

ClockSpec == ClockInit /\ [][ClockNext]_vars

----------------------------------------------------------------------------
(* The depth-snapshot proxy alone (app/api/depth/route.ts, and part_003, its  *)
(* revision without a timeout): one request, from its arrival to the          *)
(* response.  ui.route is the revision, ui.symbol the query parameter ("" when *)
(* it is missing), ui.now the time since the request arrived, ui.pc where the *)
(* handler is, ui.timer the time the abort is due, ui.called whether fetch    *)
(* was called and ui.request with which symbol, ui.upstream what the upstream *)
(* answered, ui.thrown the name of the error caught, ui.response the answer.  *)

PROXY_TIMEOUT_MS == 8000
Second == 1000
MaxWait == 10000
Routes == {"route.ts", "part_003"}
Params == {"", "btcusdt", "ETHUSDT"}
Statuses == {200, 400, 429, 503}
\* what response.json() finds in the body: a snapshot, the upstream's error
\* object, or text that is not JSON
Bodies == {"snapshot", "error", "invalid"}
UpstreamResponses == [status : Statuses, json : Bodies]

toUpperCase(str) == IF str = "btcusdt" THEN "BTCUSDT" ELSE str

\* response.ok
ok(response) == response.status >= 200 /\ response.status <= 299

\* return NextResponse.json(body, { status })
respond(r, code, body) ==
    [r EXCEPT !.pc = "responded", !.response = [status |-> code, body |-> body]]

\* the catch block
catch_GET(r, name) ==
    LET r1 == [r EXCEPT !.thrown = name]
    IN IF r.route = "route.ts" /\ name = "AbortError"
       THEN respond(r1, 504, "Request timed out")
       ELSE respond(r1, 500, "Internal Server Error")

\* GET up to its first await
GET(r) ==
    IF r.symbol = ""
    THEN respond(r, 400, "Symbol is required")
    ELSE [r EXCEPT !.timer = IF r.route = "route.ts" THEN r.now + PROXY_TIMEOUT_MS
                                                     ELSE Null,
                   !.called = TRUE,
                   !.request = toUpperCase(r.symbol),
                   !.pc = "fetching"]

\* GET resumed with the upstream's response, up to the await of its body
resolved(r, response) ==
    [r EXCEPT !.upstream = response,
              !.timer = Null,
              !.pc = IF ok(response) THEN "body" ELSE "errorBody"]

\* GET resumed after response.json()
parsed(r) ==
    IF r.pc = "errorBody"
    THEN IF r.upstream.json = "invalid" /\ r.route = "part_003"
         THEN catch_GET(r, "SyntaxError")
         ELSE respond(r, r.upstream.status, "Failed to fetch data from Binance")
    ELSE IF r.upstream.json = "invalid"
         THEN catch_GET(r, "SyntaxError")
         ELSE respond(r, 200, r.upstream.json)

ProxyInit ==
    /\ hook = "H1"
    /\ symbol = InitialPair
    /\ ws = Blank.ws
    /\ lastUpdateId = Blank.lastUpdateId
    /\ eventQueue = Blank.eventQueue
    /\ isFetchingSnapshot = Blank.isFetchingSnapshot
    /\ orderBook = Blank.orderBook
    /\ trades = Blank.trades
    /\ status = Blank.status
    /\ conn = Blank.conn
    /\ sock = Blank.sock
    /\ unmounted = Blank.unmounted
    /\ latest = Blank.latest
    /\ last = [op |-> "request", id |-> 0, arg |-> NoMsg, gate |-> <<>>]
    /\ run = NoRun
    /\ ui \in [on : {"proxy"}, route : Routes, symbol : Params, now : {0},
                pc : {"received"}, timer : {Null}, called : {FALSE}, request : {""},
                upstream : {NoMsg}, thrown : {"none"}, response : {NoMsg}]

ProxyStep(r, op) ==
    /\ ui' = r
    /\ last' = [op |-> op, id |-> 0, arg |-> NoMsg, gate |-> <<>>]
    /\ UNCHANGED <<hook, symbol, ws, lastUpdateId, eventQueue, isFetchingSnapshot,
                   orderBook, trades, status, conn, sock, unmounted, latest, run>>

\* the handler is called with the request
RequestHandled ==
    /\ ui.pc = "received"
    /\ ProxyStep(GET(ui), "GET")

\* the upstream answers
UpstreamResponds ==
    /\ ui.pc = "fetching"
    /\ \E response \in UpstreamResponses : ProxyStep(resolved(ui, response), "response")

\* the body of the upstream's answer has been read
BodyRead ==
    /\ ui.pc \in {"body", "errorBody"}
    /\ ProxyStep(parsed(ui), "json")

\* fetch rejects: the upstream cannot be reached
FetchRejects ==
    /\ ui.pc = "fetching"
    /\ ProxyStep(catch_GET(ui, "TypeError"), "reject")

\* the timeout runs controller.abort(), not before it is due, and fetch rejects
TimeoutAborts ==
    /\ ui.pc = "fetching"
    /\ ui.timer # Null
    /\ ui.now >= ui.timer
    /\ ProxyStep(catch_GET(ui, "AbortError"), "abort")

\* time passes while the request is open
SecondPasses ==
    /\ ui.pc # "responded"
    /\ ui.now + Second <= MaxWait
    /\ ProxyStep([ui EXCEPT !.now = @ + Second], "second")

ProxyNext ==
    \/ RequestHandled
    \/ UpstreamResponds
    \/ BodyRead
    \/ FetchRejects
    \/ TimeoutAborts
    \/ SecondPasses

ProxySpec == ProxyInit /\ [][ProxyNext]_vars

----------------------------------------------------------------------------
(* The sequence gate (spec 4.2) and what the hook does with a depth update.  *)

\* the outcome the specification gives the gate for baseline S and update [U, u]
Gate(S, U, u) ==
    IF u <= S THEN "stale" ELSE IF U <= S + 1 THEN "applied" ELSE "gap"

\* lastUpdateId as the handlers of socket w see it
SeenS(w) ==
    IF hook = "U0" /\ ~conn[w].isMounted THEN unmounted[w].lastUpdateId
    ELSE lastUpdateId

\* the step is the delivery of depth update d on socket w
Delivers(w, d) ==
    /\ last'.op = "message"
    /\ last'.id = w
    /\ last'.arg = d

\* the handler that ran last took a gap decision on a message it was delivered
GapDetected ==
    /\ last.op = "message"
    /\ Len(last.gate) = 1
    /\ last.gate[1].out = "gap"

\* a fetch of the snapshot is in flight
Fetching == \E c \in Slots : conn[c].st \in {"fetching", "parsing"}

\* the replay of the specification: every queued update through the gate, in
\* arrival order, against S as the updates before it advanced it
RECURSIVE Replay(_, _, _)
Replay(S, book, queue) ==
    IF queue = <<>> THEN [S |-> S, book |-> book, gap |-> FALSE]
    ELSE LET d == Head(queue)
         IN IF d.kind # "depth" THEN Replay(S, book, Tail(queue))
            ELSE IF Gate(S, d.U, d.u) = "stale" THEN Replay(S, book, Tail(queue))
            ELSE IF Gate(S, d.U, d.u) = "applied"
                 THEN Replay(d.u,
                             orderBookReducer(book, [type |-> "UPDATE",
                                                     bids |-> d.b, asks |-> d.a]),
                             Tail(queue))
            ELSE [S |-> S, book |-> book, gap |-> TRUE]

\* the hook is out of sync: it has restarted, or closed its socket
Desynced ==
    \/ lastUpdateId = Null /\ Fetching
    \/ ws # NoSocket /\ sock[ws].st \in {"closing", "closed"}

\* the step replays the queue: connect c with its snapshot where the revision
\* replays when the snapshot arrives, the open handler of socket c where it
\* replays then
Replays(c) ==
    \/ /\ hook \in {"H2", "U0", "U1"}
       /\ last'.op = "snapshot"
       /\ last'.id = c
       /\ hook = "U1" => conn[c].isMounted
    \/ /\ hook \in {"H1", "U2"}
       /\ last'.op = "open"
       /\ last'.id = c
       /\ hook = "U2" => ws = c
       /\ lastUpdateId # Null

\* the baseline and the book the replay starts from: those of the snapshot, or
\* those the snapshot left when the socket opens
ReplayedFrom ==
    IF last'.op = "snapshot"
    THEN [S |-> last'.arg.lastUpdateId,
          book |-> orderBookReducer(orderBook,
                       [type |-> "INIT", bids |-> last'.arg.bids,
                        asks |-> last'.arg.asks])]
    ELSE [S |-> lastUpdateId, book |-> orderBook]

\* the queue as connect c sees it
SeenQ(c) ==
    IF hook = "U0" /\ ~conn[c].isMounted THEN unmounted[c].eventQueue
    ELSE eventQueue

\* C1: for every baseline S that is not null and every depth update the hook
\* takes the decision of the gate: stale when u <= S, otherwise applicable when
\* U <= S + 1, otherwise gap.
C1_GateDecides ==
    \A i \in 1..Len(last.gate) :
        last.gate[i].S # Null =>
            last.gate[i].out = Gate(last.gate[i].S, last.gate[i].U, last.gate[i].u)

\* C2: a depth update delivered while S is not null, with u > S and U <= S + 1,
\* is applied to the book and S is u afterwards.
C2_ApplicableIsApplied ==
    [][\A w \in Slots, d \in DepthUpdates :
          (/\ Delivers(w, d)
           /\ SeenS(w) # Null
           /\ d.u > SeenS(w)
           /\ d.U <= SeenS(w) + 1)
          => /\ SeenS(w)' = d.u
             /\ orderBook' = orderBookReducer(orderBook,
                                 [type |-> "UPDATE", bids |-> d.b, asks |-> d.a])]_vars

\* the state after a delivery of a stale update, for the baseline it met
C3_StaleDelivered ==
    /\ last.op = "message"
    /\ Len(last.gate) = 1
    /\ last.gate[1].S # Null
    /\ last.gate[1].u <= last.gate[1].S
    /\ orderBook # EmptyBook

\* C3: a depth update with u <= S is dropped silently: the book, S, the queue,
\* the sockets, the connect invocations and the connection status are as
\* before; a queued update that is stale when it is replayed takes the same
\* branch, and a replay of stale updates only leaves S and the book as the
\* snapshot set them.
C3_StaleIsDropped ==
    /\ [][\A w \in Slots, d \in DepthUpdates :
             (/\ Delivers(w, d)
              /\ SeenS(w) # Null
              /\ d.u <= SeenS(w))
             => UNCHANGED <<ws, lastUpdateId, eventQueue, isFetchingSnapshot,
                            orderBook, trades, status, conn, sock, unmounted,
                            latest>>]_vars
    /\ [](\A i \in 1..Len(last.gate) :
             (last.gate[i].S # Null /\ last.gate[i].u <= last.gate[i].S)
                 => last.gate[i].out = "stale")
    /\ [][\A c \in Slots :
             (/\ Replays(c)
              /\ \A i \in 1..Len(SeenQ(c)) :
                    SeenQ(c)[i].kind = "depth" => SeenQ(c)[i].u <= ReplayedFrom.S)
             => /\ SeenS(c)' = ReplayedFrom.S
                /\ orderBook' = ReplayedFrom.book
                /\ status' \in {status, "connected"}]_vars

\* the gap was detected by the socket of the latest connect, with nothing else
\* alive (in H2 the handler has called connect already)
GapOfTheOnlySocket ==
    /\ GapDetected
    /\ \/ hook = "H2"
       \/ /\ last.id = latest
          /\ \A c \in Slots \ {latest} : Free(Cur, c)

\* C4: a depth update with U > S + 1 is not applied and does not advance S, and
\* the hook then discards the book, the queue and S and fetches a new snapshot.
C4_GapDiscardsAndResyncs ==
    /\ [][\A w \in Slots, d \in DepthUpdates :
             (/\ Delivers(w, d)
              /\ SeenS(w) # Null
              /\ d.U > SeenS(w) + 1)
             => /\ orderBook' \in {orderBook, EmptyBook}
                /\ SeenS(w)' \in {SeenS(w), Null}]_vars
    /\ GapOfTheOnlySocket
         ~> (/\ lastUpdateId = Null
             /\ orderBook = EmptyBook
             /\ eventQueue = <<>>
             /\ Fetching)

\* C5: after a gap the connection status becomes 'connecting' and a fetch of a
\* new snapshot is started.
C5_GapLeadsToRestart ==
    GapOfTheOnlySocket ~> (status = "connecting" /\ Fetching)

----------------------------------------------------------------------------
(* Restarts, superseded connects and the queue (spec 4.3, 4.4, 5).           *)

\* C6: once a gap is detected no depth update changes the book or S until a new
\* snapshot is installed: not the updates still to be replayed from the queue
\* by the handler that detected it, and not the update delivered next.
C6_NothingProcessedAfterGap ==
    /\ [](\A i, j \in 1..Len(last.gate) :
             (i < j /\ last.gate[i].out = "gap")
                 => last.gate[j].out \notin {"applied", "else"})
    /\ [][(GapDetected /\ last'.op = "message")
             => UNCHANGED <<orderBook, lastUpdateId, unmounted>>]_vars

\* C7: what belongs to a connect that a later connect has superseded is never
\* applied: its snapshot changes neither S nor the book and opens no socket, and
\* an update delivered on its socket changes neither S nor the book.
C7_SupersededIsDiscarded ==
    [][\A c \in Slots :
          (last'.id = c /\ c # latest /\ last'.op \in {"snapshot", "message"})
              => /\ UNCHANGED <<lastUpdateId, orderBook, ws>>
                 /\ \A w \in Slots :
                       sock'[w].st = "connecting" => sock[w].st = "connecting"]_vars

\* C8: a message is tied to the socket that delivers it: delivered on a socket
\* other than ws.current it changes neither the book nor S nor the queue nor
\* the trades.
C8_MessageOfAnotherSocketIsDiscarded ==
    [][\A w \in Slots :
          (last'.op = "message" /\ last'.id = w /\ w # ws)
              => UNCHANGED <<orderBook, lastUpdateId, eventQueue, trades, unmounted>>]_vars

\* C9: while the fetch of the latest connect is in flight a depth update that
\* is delivered is appended to the queue, and neither the book nor S changes.
C9_QueuedWhileFetching ==
    [][\A w \in Slots, d \in DepthUpdates :
          (Delivers(w, d) /\ conn[latest].st \in {"fetching", "parsing"})
              => /\ eventQueue' = Append(eventQueue, d)
                 /\ UNCHANGED <<orderBook, lastUpdateId>>]_vars

\* C10: the replay of the queue is the replay of the specification: where that
\* meets a gap the hook is out of sync afterwards, otherwise the queue is empty
\* and S and the book are those of the replay.
C10_ReplayThroughTheGate ==
    [][\A c \in Slots :
          Replays(c) =>
              LET r == Replay(ReplayedFrom.S, ReplayedFrom.book, SeenQ(c))
              IN IF r.gap THEN Desynced'
                 ELSE /\ SeenS(c)' = r.S
                      /\ orderBook' = r.book
                      /\ SeenQ(c)' = <<>>]_vars

\* the hook after the updates of a sequence were delivered to it one by one
RECURSIVE Live(_, _, _)
Live(h, m, deltas) ==
    IF deltas = <<>> THEN m
    ELSE Live(h, onmessage(h, m, 1, Head(deltas)), Tail(deltas))

\* the hook after the snapshot s arrived first and every update after it
StrictlyAfter(h, s, deltas) ==
    Live(h, snapshot(h, connect(h, Blank, InitialPair), 1, s), deltas)

\* C11's case: three updates arrived before the snapshot, two after it; the
\* first of them was replayed from the queue and a later one applied live
C11_ThreeBeforeTwoAfter ==
    /\ run.snapshot # NoMsg
    /\ run.early = 3
    /\ Len(run.deltas) = 5
    /\ Len(run.applied) = 2
    /\ run.applied[1].u = run.deltas[1].u
    /\ \A i \in 4..5 : run.deltas[i].u # run.deltas[1].u
    /\ run.applied[2].u = run.deltas[5].u
    /\ \A i \in 1..3 : run.deltas[i].u # run.deltas[5].u
    /\ lastUpdateId = run.deltas[5].u

\* C11: Buffer replay equivalence.  Whatever updates arrived before the
\* snapshot (up to three) and after it (up to two), the book and the baseline
\* are those of the run in which the snapshot arrives first and the same
\* updates arrive after it in the same order.
C11_ReplayEquivalence ==
    (run.on = "acquisition" /\ run.snapshot # NoMsg) =>
        \E r \in {StrictlyAfter(hook, run.snapshot, run.deltas)} :
            /\ orderBook = r.orderBook
            /\ lastUpdateId = r.lastUpdateId

\* the update ids of a sequence of depth updates
Ids(deltas) == [i \in 1..Len(deltas) |-> [U |-> deltas[i].U, u |-> deltas[i].u]]

\* a is b with some of its elements left out
RECURSIVE IsSubsequence(_, _)
IsSubsequence(a, b) ==
    IF a = <<>> THEN TRUE
    ELSE IF b = <<>> THEN FALSE
    ELSE IF Head(a) = Head(b) THEN IsSubsequence(Tail(a), Tail(b))
    ELSE IsSubsequence(a, Tail(b))

\* C12: Deltas are applied in transport arrival order.  The updates applied so
\* far, replayed from the queue or applied live, are in the order in which
\* they arrived: a subsequence of the arrival sequence.
C12_AppliedInArrivalOrder ==
    run.on # "off" => IsSubsequence(run.applied, Ids(run.deltas))

\* C13's case: the same depth update arrived twice; the first copy was
\* applied, the second found stale
C13_DuplicateDelivered ==
    /\ Len(run.deltas) = 2
    /\ run.deltas[1] = run.deltas[2]
    /\ run.applied = Ids(<<run.deltas[1]>>)
    /\ last.op = "message"
    /\ last.arg = run.deltas[2]
    /\ Len(last.gate) = 1
    /\ last.gate[1].out = "stale"
    /\ lastUpdateId = last.arg.u
    /\ orderBook # EmptyBook

\* C13: Idempotence under duplicates.  When a socket delivers the depth
\* update it has just delivered once more, the second delivery leaves bids,
\* asks and S as the first left them; if the first copy was applied, the
\* second is found stale (u <= S).
C13_DuplicateIsIdempotent ==
    [][\A w \in Slots :
          (/\ last.op = "message"
           /\ last.id = w
           /\ last.arg.kind = "depth"
           /\ Delivers(w, last.arg))
          => /\ orderBook' = orderBook
             /\ SeenS(w)' = SeenS(w)
             /\ (Len(last.gate) = 1 /\ last.gate[1].out = "applied")
                    => last'.gate = <<[U |-> last.arg.U, u |-> last.arg.u,
                                       S |-> last.arg.u, out |-> "stale"]>>]_vars

\* no price of a side of the book has the quantity zero
NoZero(map) == \A p \in DOMAIN map : parseFloat(map[p]) # 0

\* C14: In every reachable state neither the bids map nor the asks map holds
\* a price whose quantity is zero: after a snapshot has initialised the book
\* as well as after any sequence of updates.
C14_NoZeroQuantity ==
    NoZero(orderBook.bids) /\ NoZero(orderBook.asks)

\* the last dispatch was an UPDATE of one level, on one side
OneLevel ==
    /\ last.op = "dispatch"
    /\ last.arg.type = "UPDATE"
    /\ Len(last.arg.bids) + Len(last.arg.asks) = 1

\* the side that level is on, and the other one
SideOf(action) == IF Len(action.bids) = 1 THEN "bids" ELSE "asks"
OtherSide(side) == IF side = "bids" THEN "asks" ELSE "bids"

\* C15's case: the quantity zero for a price that was in the map, with another
\* price beside it
C15_ZeroForPresentPrice ==
    /\ OneLevel
    /\ last.arg.bids = << <<"100.00", "0.00000000">> >>
    /\ DOMAIN last.from.bids = {"100.00", "101.00"}
    /\ DOMAIN orderBook.bids = {"101.00"}
    /\ orderBook.asks # EmptyMap

\* C15: upsert(price, quantity).  With quantity zero the price is not in the
\* map afterwards, and the map is as before when the price was absent; with
\* any other quantity the price is in the map with that quantity; the entry of
\* no other price changes, and the other side is untouched.
C15_UpsertContract ==
    OneLevel =>
        LET side == SideOf(last.arg)
            price == last.arg[side][1][1]
            quantity == last.arg[side][1][2]
            old == last.from[side]
            new == orderBook[side]
        IN /\ parseFloat(quantity) = 0 =>
                 /\ price \notin DOMAIN new
                 /\ price \notin DOMAIN old => new = old
           /\ parseFloat(quantity) # 0 =>
                 /\ price \in DOMAIN new
                 /\ new[price] = quantity
           /\ \A p \in (DOMAIN old \cup DOMAIN new) \ {price} :
                 /\ p \in DOMAIN old
                 /\ p \in DOMAIN new
                 /\ new[p] = old[p]
           /\ orderBook[OtherSide(side)] = last.from[OtherSide(side)]

\* the places of a batch that name the price
Occurrences(batch, price) == { i \in 1..Len(batch) : batch[i][1] = price }

\* the greatest of a non-empty set of places
Latest(places) == CHOOSE i \in places : \A j \in places : j <= i

\* what a batch makes of the map: a price the batch names is there with the
\* quantity of its last occurrence, or gone if that quantity is zero; a price
\* the batch does not name is as before
AfterBatch(old, new, batch) ==
    \A p \in DOMAIN old \cup DOMAIN new \cup { batch[i][1] : i \in 1..Len(batch) } :
        IF Occurrences(batch, p) = {}
        THEN /\ p \in DOMAIN old
             /\ p \in DOMAIN new
             /\ new[p] = old[p]
        ELSE LET quantity == batch[Latest(Occurrences(batch, p))][2]
             IN IF parseFloat(quantity) = 0
                THEN p \notin DOMAIN new
                ELSE p \in DOMAIN new /\ new[p] = quantity

\* C16's case: a batch names one price twice, first with quantity zero, then
\* with another quantity than the map held, and the price stays with the
\* second; the same batch names another price once
C16_PriceTwiceInBatch ==
    /\ last.op = "dispatch"
    /\ last.arg.type = "UPDATE"
    /\ last.arg.bids = << <<"100.00", "0.00000000">>, <<"100.00", "3">> >>
    /\ "100.00" \in DOMAIN last.from.bids
    /\ last.from.bids["100.00"] = "2"
    /\ "101.00" \in DOMAIN last.from.bids
    /\ orderBook.bids["100.00"] = "3"

\* C16: Applying a batch of levels applies them one by one in the order
\* given: a price named more than once ends with the quantity of its last
\* occurrence (present if that is non-zero, absent if it is zero), and the
\* prices the batch does not name keep their entries.
C16_LastOccurrenceWins ==
    (last.op = "dispatch" /\ last.arg.type = "UPDATE") =>
        /\ AfterBatch(last.from.bids, orderBook.bids, last.arg.bids)
        /\ AfterBatch(last.from.asks, orderBook.asks, last.arg.asks)

\* the map that holds the levels of a list and nothing else
AsMap(levels) ==
    [p \in { levels[i][1] : i \in 1..Len(levels) } |->
        levels[Latest(Occurrences(levels, p))][2]]

\* connect c applies the snapshot it is given: every revision but part_001
\* after its effect's cleanup
Applies(c) == ~(hook = "U1" /\ ~conn[c].isMounted)

\* the queue connect c would replay on its snapshot holds no depth update
NothingQueued(c) ==
    hook \in {"H2", "U0", "U1"} =>
        \A i \in 1..Len(SeenQ(c)) : SeenQ(c)[i].kind # "depth"

\* C17's case: a snapshot with a bid level and the baseline 1 was applied
C17_SnapshotApplied ==
    /\ last.op = "snapshot"
    /\ last.arg.lastUpdateId = 1
    /\ last.arg.bids # <<>>
    /\ lastUpdateId = 1
    /\ orderBook.bids = AsMap(last.arg.bids)
    /\ orderBook.bids # EmptyMap
    /\ status = "connected"

\* C17: When a snapshot is applied, S becomes the snapshot's lastUpdateId and
\* the bids and asks maps become exactly the snapshot's level lists: whatever
\* the maps held before, no entry survives that the snapshot does not list.
C17_SnapshotInitialises ==
    [][\A c \in Slots :
          (/\ last'.op = "snapshot"
           /\ last'.id = c
           /\ Applies(c)
           /\ NothingQueued(c))
          => /\ SeenS(c)' = last'.arg.lastUpdateId
             /\ orderBook' = [bids |-> AsMap(last'.arg.bids),
                              asks |-> AsMap(last'.arg.asks)]]_vars

\* the snapshot and the update of the example in the specification
Snapshot1000 ==
    [lastUpdateId |-> 1000, bids |-> << <<"100.00", "2">> >>,
     asks |-> << <<"101.00", "3">> >>]
Update1001 ==
    [kind |-> "depth", U |-> 1001, u |-> 1001, b |-> << <<"100.00", "0">> >>, a |-> <<>>]

\* C18's case: the snapshot has arrived and the update after it, and the
\* update went through the gate of a live message
C18_SnapshotThenUpdate ==
    /\ run.snapshot = Snapshot1000
    /\ run.early = 0
    /\ run.deltas = <<Update1001>>
    /\ last.op = "message"
    /\ last.gate = <<[U |-> 1001, u |-> 1001, S |-> 1000, out |-> "applied"]>>

\* C18: End to end.  After the snapshot {1000, bids [(100.00, 2)], asks
\* [(101.00, 3)]} and the update {1001, 1001, bids [(100.00, 0)], asks []} the
\* bids map is empty, the asks map is as the snapshot set it, and S is 1001.
C18_ZeroQuantityEndToEnd ==
    (run.snapshot = Snapshot1000 /\ run.deltas = <<Update1001>>) =>
        /\ orderBook.bids = EmptyMap
        /\ orderBook.asks = AsMap(<< <<"101.00", "3">> >>)
        /\ lastUpdateId = 1001

\* C19: Baseline zero is a present baseline.  Only the null baseline makes
\* the hook ignore a depth update; against the baseline 0 an update with
\* U <= 1 and u >= 1 is applied, replayed or live, and a live one leaves S = u.
C19_ZeroBaselineIsPresent ==
    /\ \A i \in 1..Len(last.gate) :
          /\ last.gate[i].out = "ignored" => last.gate[i].S = Null
          /\ (last.gate[i].S = 0 /\ last.gate[i].U <= 1 /\ last.gate[i].u >= 1)
                => last.gate[i].out = "applied"
    /\ (/\ last.op = "message"
        /\ Len(last.gate) = 1
        /\ last.gate[1].S = 0
        /\ last.gate[1].U <= 1
        /\ last.gate[1].u >= 1)
          => SeenS(last.id) = last.gate[1].u

\* the handler that ran last met a failure of the current acquisition: the
\* fetch of the latest connect failed, the socket in ws.current had its error
\* or close event, or a live update showed a gap
Failed ==
    \/ last.op = "catch" /\ last.id = latest
    \/ last.op \in {"error", "close"} /\ last.id = ws
    \/ GapDetected

\* C20: Every failure mode has a recovery path.  After a failed snapshot
\* fetch, an error or close of the current socket, or a gap, a connect with a
\* fresh snapshot fetch is eventually under way, provided pending fetches,
\* socket events and timers are delivered.
C20_EveryFailureRecovers == Failed ~> Fetching

\* the socket in ws.current had its error or close event
TransportFailed ==
    /\ last.op \in {"error", "close"}
    /\ last.id = ws

\* an acquisition has been started again: the status is 'connecting' and a
\* snapshot fetch is in flight
Restarted ==
    /\ status = "connecting"
    /\ Fetching

\* C21: A close or error of the currently active socket is terminal for the
\* current instance and always triggers a resync: after every such event a
\* restart of snapshot and stream acquisition follows.
C21_TransportFailureResyncs == TransportFailed ~> Restarted

\* the fetch of the latest connect has just failed and the status reports it
FetchFailed ==
    /\ last.op = "catch"
    /\ last.id = latest
    /\ status = "error"

\* C22: After a snapshot fetch has failed the status is 'error' and stays
\* 'error' until a later acquisition attempt: a socket event that follows the
\* failure (open, message, error, close) does not change it.
C22_ErrorStaysAfterFetchFailure ==
    /\ [](last.op = "catch" /\ last.id = latest => status = "error")
    /\ [][(FetchFailed /\ last'.op \in {"open", "message", "error", "close"})
            => status' = "error"]_vars

\* the handler that ran last met a gap, on a delivered update or in a replay
GapMet == \E i \in 1..Len(last.gate) : last.gate[i].out = "gap"

Failure == {"disconnected", "error"}

\* C23: A gap shows to the consumer as 'connecting' only: when a handler has
\* met a gap and the status was neither 'disconnected' nor 'error', the close
\* event that follows the gap does not make it 'disconnected' or 'error'.
C23_GapNeverShowsFailure ==
    [][(GapMet /\ status \notin Failure /\ last'.op = "close")
        => status' \notin Failure]_vars

\* the step calls connect(): the effect of a new pair, the reconnect timer of
\* part_000 when its guard lets it through, the gap branch of the second revision
ConnectStarts ==
    \/ last'.op = "switch"
    \/ /\ last'.op = "timeout"
       /\ conn[last'.id].isMounted
       /\ ws = last'.id
    \/ /\ hook = "H2"
       /\ last'.op = "message"
       /\ \E i \in 1..Len(last'.gate) : last'.gate[i].out = "gap"

\* nothing is left of the previous acquisition
StartsEmpty ==
    /\ eventQueue = <<>>
    /\ lastUpdateId = Null
    /\ orderBook = EmptyBook
    /\ trades = <<>>
    /\ status = "connecting"
    /\ conn[latest].st = "fetching"

Synced ==
    /\ lastUpdateId # Null
    /\ ~isFetchingSnapshot

IsDepth(message) == message.kind = "depth"

\* the update ids a handler put through the gate
Gated(gate) == [i \in 1..Len(gate) |-> [U |-> gate[i].U, u |-> gate[i].u]]

\* C25: Every update is consumed once and not retained.  The queue is empty
\* whenever the engine is synced; a replay puts queued updates through the gate
\* in order, each at most once, and leaves the queue empty; a delivered update
\* is either queued or put through the gate once, never both.
C25_ConsumedOnce ==
    /\ [](Synced => eventQueue = <<>>)
    /\ [][\A c \in Slots :
            Replays(c) =>
                /\ IsSubsequence(Gated(last'.gate), Ids(SelectSeq(SeenQ(c), IsDepth)))
                /\ Synced' => eventQueue' = <<>>]_vars
    /\ [][\A w \in Slots, d \in DepthUpdates :
            Delivers(w, d) =>
                \/ /\ SeenQ(w)' = Append(SeenQ(w), d)
                   /\ last'.gate = <<>>
                \/ /\ Len(SeenQ(w)') <= Len(SeenQ(w))
                   /\ Len(last'.gate) <= 1]_vars

\* C26: Loss-free start-up.  With a source whose updates the transport
\* delivers contiguously, in order and once, no handler reports a gap, however
\* the snapshot response and the deliveries are timed.
C26_NoGapOnContiguousStream == run.on = "stream" => ~GapMet

\* the step calls connect(): a fetch is in flight that was not before
Invokes == \E c \in Slots : conn'[c].st = "fetching" /\ conn[c].st # "fetching"

\* C27: A restart after a transport failure or a fetch error is never
\* immediate.  No error handler, close handler or catch block calls connect():
\* connect() starts only with a new pair, with the expiry of the reconnect timer
\* a close handler set, or in the handler that met a gap.
C27_RestartOnlyAfterDelay ==
    [][Invokes =>
          /\ last'.op \notin {"error", "close", "catch"}
          /\ \/ last'.op = "switch"
             \/ last'.op = "timeout" /\ sock[last'.id].timer
             \/ \E i \in 1..Len(last'.gate) : last'.gate[i].out = "gap"]_vars

\* part_000 has restarted after the close of its socket, when the timer expired
C27_RestartedByTimer ==
    /\ hook = "U0"
    /\ last.op = "timeout"
    /\ ws = last.id
    /\ sock[ws].st = "closed"
    /\ StartsEmpty

\* C28: The list of recent trades holds at most 50 trades, the most recent
\* first.  An arriving trade becomes the head and the trades before it follow
\* in their order, all of them while the list held fewer than 50, the first 49
\* (all but the oldest) when it held 50.
C28_RecentTradesFirst ==
    /\ [](/\ Len(trades) <= TradeCap
          /\ \A i, j \in 1..Len(trades) : i < j => trades[i].t >= trades[j].t)
    /\ [][last'.op = "trade" =>
            trades' = <<last'.arg>> \o
                      (IF Len(trades) < TradeCap THEN trades
                       ELSE SubSeq(trades, 1, TradeCap - 1))]_vars

\* a trade has arrived at a full list: it is the head and the oldest is gone
C28_OldestEvicted ==
    /\ last.op = "trade"
    /\ Len(last.from) = TradeCap
    /\ Len(trades) = TradeCap
    /\ trades[1] = last.arg
    /\ trades[TradeCap] = last.from[TradeCap - 1]
    /\ last.from[TradeCap] \notin { trades[i] : i \in 1..Len(trades) }

\* price p is at least as good as price q on the side of the table
AsGoodAs(type, p, q) ==
    IF type = "bids" THEN parseFloat(p) >= parseFloat(q)
    ELSE parseFloat(p) <= parseFloat(q)

\* C29: The depth view of a side holds at most 20 levels, all of them levels
\* of the map, the best-priced ones (no level left out has a better price than
\* one shown), bids from the highest price down and asks from the lowest up;
\* the total of a row is the sum of the amounts from the best price to it, so
\* the totals never decrease along the view.
C29_DepthView ==
    ui.on = "table" =>
        LET view == ui.processedData
            data == ui.data
            shown == { view[i].price : i \in 1..Len(view) }
        IN /\ Len(view) = (IF Len(data) < MaxDepth THEN Len(data) ELSE MaxDepth)
           /\ \A i \in 1..Len(view) :
                 /\ \E k \in 1..Len(data) : data[k] = <<view[i].price, view[i].amount>>
                 /\ view[i].total = (IF i = 1 THEN 0 ELSE view[i - 1].total)
                                       + parseFloat(view[i].amount)
           /\ \A i, j \in 1..Len(view) :
                 i < j => /\ view[i].price # view[j].price
                          /\ AsGoodAs(ui.type, view[i].price, view[j].price)
                          /\ view[i].total <= view[j].total
           /\ \A k \in 1..Len(data), i \in 1..Len(view) :
                 data[k][1] \notin shown => AsGoodAs(ui.type, view[i].price, data[k][1])

\* the table of the bids is given 30 levels: it shows 20, the highest price
\* first, and the ten levels left out are the ten lowest
C29_ThirtyBidLevels ==
    /\ ui.on = "table"
    /\ ui.type = "bids"
    /\ Len(ui.data) = 30
    /\ Len(ui.processedData) = 20
    /\ \A k \in 1..Len(ui.data) :
          parseFloat(ui.data[k][1]) <= parseFloat(ui.processedData[1].price)
    /\ Cardinality({ k \in 1..Len(ui.data) :
                       parseFloat(ui.data[k][1]) < parseFloat(ui.processedData[20].price) })
          = 10
    /\ ui.processedData[20].total > ui.processedData[1].total
    /\ ui.data[1][1] # ui.processedData[1].price
    /\ ui.stride = 5

\* what the hook returns as bids and asks
Published == [bids |-> ui.throttledBids, asks |-> ui.throttledAsks]

\* C30: The read view reflects the latest fully applied state.  Whenever the
\* published maps change they become the maps of the book as it is then, a
\* state the reducer returned; and unless the book keeps changing for ever the
\* published maps become the book's maps and stay so.
C30_ViewFollowsBook ==
    /\ [][(ui.on = "hook" /\ Published' # Published) => Published' = orderBook']_vars
    /\ \/ []<><<orderBook' # orderBook>>_vars
       \/ <>[](ui.on = "hook" => Published = orderBook)

\* the timeout has published the latest book, which holds both bid prices
C30_LatestPublishedByTimer ==
    /\ ui.on = "hook"
    /\ last.op = "timeout"
    /\ orderBook # EmptyBook
    /\ DOMAIN orderBook.bids = Prices
    /\ Published = orderBook

\* C31: The read side is rate-limited: on the clock, two consecutive
\* publications of the throttled maps are never less than THROTTLE_MS apart,
\* however many dispatches lie between them.
C31_PublicationsApart ==
    (ui.on = "clock" /\ ui.before # Null) => ui.at - ui.before >= THROTTLE_MS

\* the timeout has published exactly THROTTLE_MS after the publication before,
\* with a book that was dispatched in between
C31_PublishedAfterInterval ==
    /\ ui.on = "clock"
    /\ last.op = "timeout"
    /\ ui.before # Null
    /\ ui.at - ui.before = THROTTLE_MS
    /\ orderBook # EmptyBook
    /\ ui.throttledBids = orderBook.bids

\* C32: a trade needs no reconciliation.  The handler of a trade event leaves
\* the bids, the asks, the baseline lastUpdateId, the status and the rest of the
\* engine's state as they were, and the trade becomes the head of the trade
\* list whatever the ids of the trades before it, or waits in the event queue
\* while the snapshot is being fetched.
TradeHandled == last'.op = "message" /\ last'.arg.kind = "trade"
C32_TradesNeedNoReconciliation ==
    [][TradeHandled =>
          /\ orderBook' = orderBook
          /\ lastUpdateId' = lastUpdateId
          /\ status' = status
          /\ isFetchingSnapshot' = isFetchingSnapshot
          /\ ws' = ws
          /\ \/ trades' = <<last'.arg>> \o trades /\ eventQueue' = eventQueue
             \/ /\ isFetchingSnapshot /\ hook # "U0"
                /\ eventQueue' = Append(eventQueue, last'.arg) /\ trades' = trades]_vars
C32_TradeOutOfOrder ==
    /\ run.on = "trades" /\ last.op = "message" /\ last.arg.kind = "trade"
    /\ Len(trades) >= 2 /\ trades[1] = last.arg /\ trades[1].t < trades[2].t
    /\ lastUpdateId # Null /\ orderBook # EmptyBook
\* the handler put one depth update through the gate and took the branch out
Took(out) == Len(last'.gate) = 1 /\ last'.gate[1].out = out

\* lastUpdateId as the handlers of socket w see it after the step (nothing sees
\* the variables of a slot that the step has freed)
SeenSAfter(w) ==
    IF hook = "U0" /\ ~conn[w].isMounted
    THEN (IF sock'[w].st = "none" THEN SeenS(w) ELSE unmounted'[w].lastUpdateId)
    ELSE lastUpdateId'

\* C33: the baseline never decreases.  From one non-null value to the next
\* lastUpdateId does not go down; a depth update that is applied raises the
\* lastUpdateId its handler sees to the update's u, above what it was; a stale
\* update, a gap, a trade, a close and an error leave it as it was; and it
\* becomes null only in a step that calls connect().
C33_BaselineNeverDecreases ==
    [][/\ (lastUpdateId # Null /\ lastUpdateId' # Null) => lastUpdateId' >= lastUpdateId
       /\ (lastUpdateId # Null /\ lastUpdateId' = Null) => ConnectStarts
       /\ (last'.op = "message" /\ Took("applied"))
             => /\ SeenSAfter(last'.id) = last'.gate[1].u
                /\ SeenSAfter(last'.id) > SeenS(last'.id)
       /\ (last'.op = "message" /\ (Took("stale") \/ Took("gap")) /\ ~ConnectStarts)
             => SeenSAfter(last'.id) = SeenS(last'.id)
       /\ (TradeHandled \/ last'.op \in {"close", "error"})
             => SeenSAfter(last'.id) = SeenS(last'.id)]_vars
\* the sockets that are not closed and on which close() has not been called
Connected(w) == sock[w].st \in {"connecting", "open"}

\* C34: at most one transport connection.  Every socket other than ws.current
\* is closed or closing, and a socket is created only by the latest connect().
C34_OneConnection ==
    /\ [](\A w \in Slots : Connected(w) => ws = w)
    /\ [][\A c \in Slots : (~Connected(c) /\ sock'[c].st = "connecting") => latest' = c]_vars
\* no baseline and nothing in the book
Unsynced == lastUpdateId = Null /\ orderBook = EmptyBook

\* the latest connect() has ended
Ended == conn[latest].st = "returned"

\* C35: after a failed fetch nothing is applied.  When the fetch of the latest
\* connect() fails, lastUpdateId is null and the book is empty, and while no
\* other connect() is called they stay so, whatever the sockets deliver.
C35_NothingAppliedAfterFailure ==
    [][/\ (last'.op = "catch" /\ last'.id = latest') => Unsynced'
       /\ (Ended /\ Unsynced /\ ~ConnectStarts) => Unsynced']_vars
\* the step is the continuation of a fetch and installs its snapshot
Installs ==
    /\ last'.op = "snapshot"
    /\ \/ orderBook' # orderBook
       \/ lastUpdateId' # lastUpdateId
       \/ status' # status

\* C36: 'connected' only with a snapshot applied.  While the status is
\* 'connected' lastUpdateId is not null; lastUpdateId leaves null only by the
\* continuation of a fetch; and a continuation that installs its snapshot
\* belongs to a connect() for the pair that is selected.
C36_ConnectedOnlyWithSnapshot ==
    /\ [](status = "connected" => lastUpdateId # Null)
    /\ [][(lastUpdateId = Null /\ lastUpdateId' # Null) => last'.op = "snapshot"]_vars
    /\ [][Installs => conn[last'.id].currentSymbol = symbol]_vars
\* C37: the events of another socket do not touch the status.  The close or
\* error event of a socket that ws.current does not refer to leaves the status
\* as it was; a close event that makes the status 'disconnected' and an error
\* event that makes it 'error' are events of the socket in ws.current.
C37_OnlyCurrentSocketSetsStatus ==
    [][/\ (last'.op \in {"close", "error"} /\ last'.id # ws) => status' = status
       /\ (last'.op = "close" /\ status' # status)
             => last'.id = ws /\ status' = "disconnected"
       /\ (last'.op = "error" /\ status' # status)
             => last'.id = ws /\ status' = "error"]_vars
\* C38: the proxy maps each outcome to one response.  Without a symbol the
\* answer is 400 and fetch is not called; an upstream answer that is not a
\* success is answered with the upstream's status; a fetch aborted after the
\* 8 s timeout is answered with 504; any other error caught is answered with
\* 500; and the snapshot is in the answer only after an upstream success.
C38_ProxyOutcomes ==
    (ui.on = "proxy" /\ ui.pc = "responded") =>
        /\ ui.symbol = "" => (ui.response.status = 400 /\ ~ui.called)
        /\ (ui.upstream # NoMsg /\ ~ok(ui.upstream))
              => ui.response.status = ui.upstream.status
        /\ ui.thrown = "AbortError"
              => (ui.response.status = 504 /\ ui.now >= PROXY_TIMEOUT_MS)
        /\ ui.thrown \notin {"none", "AbortError"} => ui.response.status = 500
        /\ ui.response.body = "snapshot"
              => (ui.upstream # NoMsg /\ ok(ui.upstream) /\ ui.response.status = 200)
\* the revisions whose processMessage ends with the else branch
WithElse == {"H1", "U1", "U2"}

\* C39: the final else of processMessage is never taken.  No depth update goes
\* through the final else branch, and where processMessage has that branch an
\* update with u above the baseline is applied or found to be a gap.
C39_ElseUnreachable ==
    \A i \in 1..Len(last.gate) :
        /\ last.gate[i].out # "else"
        /\ (hook \in WithElse /\ last.gate[i].S # Null /\ last.gate[i].u > last.gate[i].S)
              => last.gate[i].out \in {"applied", "gap"}
C39_EndsJustAboveBaseline ==
    /\ hook \in WithElse
    /\ last.op = "message"
    /\ Len(last.gate) = 1
    /\ last.gate[1].S # Null
    /\ last.gate[1].u = last.gate[1].S + 1
    /\ last.gate[1].U < last.gate[1].u
    /\ last.gate[1].out = "applied"
====
